---- MODULE Spec2Model ----
(***************************************************************************)
(* Model of the friscy runtime (android-app-wamr/app/src/main/cpp):        *)
(* the host-I/O bridge (friscy/android_io.hpp), the execution loop and     *)
(* the JNI entry points (friscy_runtime.cpp), the VFS fd table             *)
(* (friscy/vfs.hpp) and the syscall handlers for read, write, openat,      *)
(* close, dup3, pipe2, clone, exit, exit_group, wait4, gettid, mmap and    *)
(* sched_yield with the cooperative scheduler (friscy/syscalls.hpp).       *)
(*                                                                         *)
(* Conventions.  The guest machine is a register file `regs`, a program    *)
(* counter `pc`, the stop flag `m_stopped` and the memory `mem`.  The      *)
(* guest reaches an ecall with the syscall number in a7 and the arguments  *)
(* in a0..a4; the handler selected by a7 runs with cpu.pc() already past   *)
(* the 4-byte ecall (syscalls.hpp:602, 1127), so a handler that does not   *)
(* touch the pc leaves it at the ecall's address + 4.                      *)
(***************************************************************************)
EXTENDS Integers, Sequences, FiniteSets, TLC

\* ------------------------------------------------------------------ bounds
MaxByte == 2
MaxPushLen == 2
MaxPushed == 2
MaxCount == 2
MaxFd == 4
MaxFileLen == 2
MaxEntries == 3
MaxForks == 2
MaxThreadClones == 8
MaxBusy == 2
MaxExitCode == 1
MaxStore == 1
MaxWorkers == 2
MaxWake == 2
MaxClock == 0
MaxTicks == 1
MaxPollFds == 1

\* ------------------------------------------------------- program constants
EcallLen == 4
EBADF == 9
ECHILD == 10
EAGAIN == 11
EEXIST == 17
ENOTDIR == 20
EISDIR == 21
EMLINK == 31
EINVAL == 22
ENOENT == 2
ENOTSUP == 95
ENOSYS == 38
AT_FDCWD == -100
FIRST_PID == 100
FIRST_FD == 3
MAX_VTHREADS == 8
THREAD_QUANTUM == 50000
MAX_RETRIES == 8

NR_dup == 23
NR_dup3 == 24
NR_linkat == 37
NR_openat == 56
NR_close == 57
NR_pipe2 == 59
NR_read == 63
NR_write == 64
NR_pread64 == 67
NR_pwrite64 == 68
NR_ppoll == 73
NR_futex == 98
NR_nanosleep == 101
NR_clock_gettime == 113
NR_exit == 93
NR_exit_group == 94
NR_sched_yield == 124
NR_gettid == 178
NR_clone == 220
NR_mmap == 222
NR_wait4 == 260

O_RDONLY == 0
O_WRONLY == 1
O_RDWR == 2
O_CREAT == 64
O_EXCL == 128
O_TRUNC == 512
O_APPEND == 1024
O_DIRECTORY == 65536

POLLIN == 1
POLLOUT == 4
POLLHUP == 16
POLL_NFDS_CAP == 64
POLLFD_CELLS == 3

FUTEX_WAIT == 0
FUTEX_WAKE == 1
FUTEX_WAIT_BITSET == 9
FUTEX_WAKE_BITSET == 10
FUTEX_CMD_SPAN == 128

F_CLONE_VM == 256
F_CLONE_VFORK == 16384
F_CLONE_THREAD == 65536
F_CLONE_SETTLS == 524288
F_CLONE_PARENT_SETTID == 1048576
F_CLONE_CHILD_CLEARTID == 2097152

\* Registers of the model: x1 (ra), x2 (sp), x4 (tp), a0..a4, a7.
REG_RA == 1
REG_SP == 2
REG_TP == 4
REG_A0 == 10
REG_A1 == 11
REG_A2 == 12
REG_A3 == 13
REG_A4 == 14
REG_A7 == 17
Regs == {REG_RA, REG_SP, REG_TP, REG_A0, REG_A1, REG_A2, REG_A3, REG_A4, REG_A7}
ArgRegs == {REG_A0, REG_A1, REG_A2, REG_A3, REG_A4, REG_A7}

\* Addresses of the guest's ecall instructions, and its entry point.
EcallSites == {8, 16}
EntryPc == 0

\* Guest memory layout set up by nativeLoadRootfs, one cell per region.
\* Cell 0 is the unmapped null page; the mmap area ends where the
\* interpreter's writable segment begins.
EXEC_RW_START == 1
EXEC_RW_END == 2
HEAP_START == 2
HEAP_SIZE == 1
MMAP_LIMIT == 4
INTERP_RW_START == 4
INTERP_RW_END == 5
STACK_TOP == 6

Addr == 1..(STACK_TOP - 1)

\* Read-only strings of the guest image: address -> path.
PathAt == (100 :> "a") @@ (101 :> "b") @@ (102 :> "/")

Bytes == 1..MaxByte
Cell == 0..MaxByte
Slots == 0..(MAX_VTHREADS - 1)

VARIABLES
  regs, pc, m_stopped, mem, mmap_frontier, page_attr,
  stdin_buffer, stdin_eof, waiting_for_stdin, running, stdin_mutex,
  execPc, retries, uiPc, uiData, session, snap, pushed, consumed,
  fs, g_fork, g_next_pid, g_sched, g_exec_ctx,
  hist

machineVars == <<regs, pc, m_stopped, mem, mmap_frontier, page_attr>>
bridgeVars == <<stdin_buffer, stdin_eof, waiting_for_stdin, running, stdin_mutex>>
hostVars == <<execPc, retries, uiPc, uiData, session, snap>>
ghostVars == <<pushed, consumed, hist>>
procVars == <<g_fork, g_next_pid, g_sched, g_exec_ctx>>

vars == <<machineVars, bridgeVars, hostVars, ghostVars, fs, procVars>>

\* ----------------------------------------------------------------- helpers
Min(a, b) == IF a < b THEN a ELSE b

Max(a, b) == IF a > b THEN a ELSE b

\* flags & bit, for a power of two.
HasFlag(flags, bit) == (flags \div bit) % 2 = 1

Without(f, k) == [x \in (DOMAIN f) \ {k} |-> f[x]]

With(f, k, v) == [x \in (DOMAIN f) \cup {k} |-> IF x = k THEN v ELSE f[x]]

\* Guest memory after memory.memcpy(dst, data, Len(data)).
memcpy(m, dst, data) ==
  [a \in Addr |-> IF a >= dst /\ a < dst + Len(data) THEN data[a - dst + 1] ELSE m[a]]

\* memory.memcpy_out: the size cells starting at src.
memcpy_out(m, src, size) == [i \in 1..size |-> m[src + i - 1]]

\* memory.write<int32_t>(addr, v): one cell holds one integer.
write32(m, addr, v) == [m EXCEPT ![addr] = v]

\* riscv::PageAttributes as the sum of its read (1), write (2), exec (4) bits.
PageAttributes(read, write, exec) ==
  (IF read THEN 1 ELSE 0) + (IF write THEN 2 ELSE 0) + (IF exec THEN 4 ELSE 0)

\* memory.set_page_attr(addr, len, attr): one cell is one page.
set_page_attr(pa, addr, len, attr) ==
  [a \in Addr |-> IF a >= addr /\ a < addr + len THEN attr ELSE pa[a]]

InArena(addr, size) == addr >= 1 /\ addr + size <= STACK_TOP

\* ------------------------------------------------------ vfs.hpp: VirtualFS
\* fs = [entries, children, open_files_, open_dirs_, next_fd_]: entries maps
\* an Entry's identity (its allocation order) to [type, content, size];
\* children is the root directory's name -> Entry map; open_files_ and
\* open_dirs_ map an fd to its FileHandle / DirHandle.
FT_Regular == "Regular"
FT_Directory == "Directory"
FT_Fifo == "Fifo"

RootEntry == 0
NoEntry == -1

\* make_shared<Entry>() value-initialises the scalar fields.
Entry(t) ==
  [type |-> t, content |-> <<>>, size |-> 0, mode |-> 0, uid |-> 0, gid |-> 0,
   mtime |-> 0, link_target |-> <<>>]

FileHandle(e, f) == [entry |-> e, offset |-> 0, flags |-> f]

DirHandle(e) == [entry |-> e, index |-> 0]

\* Entry e of the VFS (entries is a sequence; identities start at 0).
EntryOf(f, e) == f.entries[e + 1]

is_dir(f, e) == EntryOf(f, e).type = FT_Directory

is_file(f, e) == EntryOf(f, e).type = FT_Regular

\* make_shared<Entry>(): the new Entry's identity.
new_entry(f) == Len(f.entries)

\* VirtualFS::resolve over a one-level tree ("/" and the names under it).
resolve(f, path) ==
  IF path = "/" THEN RootEntry
  ELSE IF path \in DOMAIN f.children THEN f.children[path]
  ELSE NoEntry

is_open(f, fd) == fd \in DOMAIN f.open_files_ \/ fd \in DOMAIN f.open_dirs_

get_open_fds(f) == (DOMAIN f.open_files_) \cup (DOMAIN f.open_dirs_)

get_entry(f, fd) ==
  IF fd \in DOMAIN f.open_files_ THEN f.open_files_[fd].entry
  ELSE IF fd \in DOMAIN f.open_dirs_ THEN f.open_dirs_[fd].entry
  ELSE NoEntry

\* A close that drops every handle on the Entry behind fd.
vfs_close_entry(f, fd) ==
  LET gone == {x \in DOMAIN f.open_files_ :
                 fd \in DOMAIN f.open_files_
                   /\ f.open_files_[x].entry = f.open_files_[fd].entry}
  IN [f EXCEPT !.open_files_ = [x \in (DOMAIN @) \ (gone \cup {fd}) |-> @[x]],
               !.open_dirs_ = Without(@, fd)]

\* VirtualFS::close
vfs_close(f, fd) ==
  [f EXCEPT !.open_files_ = Without(@, fd), !.open_dirs_ = Without(@, fd)]

\* VirtualFS::create_file: a new empty Regular entry under the root.
create_file(f, path) ==
  [f EXCEPT !.entries = Append(@, [Entry(FT_Regular) EXCEPT !.mode = 420]),
            !.children = With(@, path, new_entry(f))]

\* VirtualFS::open.  Returns [fs, ret].
vfs_open(f, path, flags) ==
  LET found == resolve(f, path)
      creates == found = NoEntry /\ HasFlag(flags, O_CREAT)
      f1 == IF creates THEN create_file(f, path) ELSE f
      e == IF creates THEN new_entry(f) ELSE found
      fd == f.next_fd_
      f2 == IF HasFlag(flags, O_TRUNC)
            THEN [f1 EXCEPT !.entries[e + 1].content = <<>>, !.entries[e + 1].size = 0]
            ELSE f1
      fh == [FileHandle(e, flags) EXCEPT
               !.offset = IF HasFlag(flags, O_APPEND)
                          THEN Len(EntryOf(f2, e).content) ELSE 0]
  IN IF found = NoEntry /\ ~HasFlag(flags, O_CREAT) THEN [fs |-> f, ret |-> -ENOENT]
     ELSE IF found # NoEntry /\ HasFlag(flags, O_CREAT) /\ HasFlag(flags, O_EXCL)
          THEN [fs |-> f, ret |-> -EEXIST]
     ELSE IF is_dir(f1, e) THEN [fs |-> f1, ret |-> -EISDIR]
     ELSE [fs |-> [f2 EXCEPT !.open_files_ = With(@, fd, fh), !.next_fd_ = @ + 1],
           ret |-> fd]

\* VirtualFS::opendir.
vfs_opendir(f, path) ==
  LET e == resolve(f, path) IN
  IF e = NoEntry THEN [fs |-> f, ret |-> -ENOENT]
  ELSE IF ~is_dir(f, e) THEN [fs |-> f, ret |-> -ENOTDIR]
  ELSE [fs |-> [f EXCEPT !.open_dirs_ = With(@, f.next_fd_, DirHandle(e)),
                         !.next_fd_ = @ + 1],
        ret |-> f.next_fd_]

\* VirtualFS::read.  size_t available wraps when the offset is past the end;
\* bytes read beyond the vector are whatever lies there (junk).
vfs_read(f, fd, count, junk) ==
  IF fd \notin DOMAIN f.open_files_ THEN [fs |-> f, ret |-> -EBADF, data |-> <<>>]
  ELSE LET fh == f.open_files_[fd]
           content == EntryOf(f, fh.entry).content
           available == IF fh.offset <= Len(content)
                        THEN Len(content) - fh.offset
                        ELSE count
           to_read == Min(count, available)
       IN IF ~is_file(f, fh.entry) THEN [fs |-> f, ret |-> -EISDIR, data |-> <<>>]
          ELSE [fs |-> [f EXCEPT !.open_files_[fd].offset = @ + to_read],
                ret |-> to_read,
                data |-> [i \in 1..to_read |->
                            IF fh.offset + i <= Len(content)
                            THEN content[fh.offset + i] ELSE junk]]

\* VirtualFS::write: resize zero-fills up to the new end, then the bytes land.
vfs_write(f, fd, data) ==
  IF fd \notin DOMAIN f.open_files_ THEN [fs |-> f, ret |-> -EBADF]
  ELSE LET fh == f.open_files_[fd]
           e == fh.entry
           content == EntryOf(f, e).content
           count == Len(data)
           end_pos == fh.offset + count
           grown == IF end_pos > Len(content)
                    THEN [i \in 1..end_pos |-> IF i <= Len(content) THEN content[i] ELSE 0]
                    ELSE content
           written == [i \in 1..Len(grown) |->
                         IF i > fh.offset /\ i <= end_pos THEN data[i - fh.offset]
                         ELSE grown[i]]
       IN IF ~is_file(f, e) THEN [fs |-> f, ret |-> -EISDIR]
          ELSE [fs |-> [f EXCEPT !.entries[e + 1].content = written,
                                 !.entries[e + 1].size =
                                    IF end_pos > Len(content) THEN end_pos ELSE @,
                                 !.open_files_[fd].offset = @ + count],
                ret |-> count]

\* VirtualFS::dup2.  newfd is closed before oldfd is looked up.
vfs_dup2(f, oldfd, newfd) ==
  LET c == vfs_close(f, newfd) IN
  IF oldfd = newfd THEN [fs |-> f, ret |-> newfd]
  ELSE IF oldfd \in DOMAIN c.open_files_
       THEN [fs |-> [c EXCEPT !.open_files_ = With(@, newfd, c.open_files_[oldfd])],
             ret |-> newfd]
  ELSE IF oldfd \in DOMAIN c.open_dirs_
       THEN [fs |-> [c EXCEPT !.open_dirs_ = With(@, newfd, c.open_dirs_[oldfd])],
             ret |-> newfd]
  ELSE [fs |-> c, ret |-> -EBADF]

\* VirtualFS::open_pipe: next_fd_++ and a handle on the shared pipe Entry.
open_pipe(f, e, end) ==
  [fs |-> [f EXCEPT !.open_files_ =
                        With(@, f.next_fd_,
                             FileHandle(e, IF end = 0 THEN O_RDONLY ELSE O_WRONLY)),
                    !.next_fd_ = @ + 1],
   ret |-> f.next_fd_]

\* The VFS after load_tar of a root holding one regular file "a".
FileA ==
  [Entry(FT_Regular) EXCEPT !.content = <<1, 2>>, !.size = 2, !.mode = 420,
                            !.uid = 1, !.gid = 1, !.mtime = 1]

LoadedFs ==
  [entries |-> <<Entry(FT_Directory), FileA>>,
   children |-> ("a" :> 1),
   open_files_ |-> <<>>,
   open_dirs_ |-> <<>>,
   next_fd_ |-> FIRST_FD]

\* ------------------------------------------- syscalls.hpp: ThreadScheduler
ZeroRegs == [r \in Regs |-> 0]

VThread ==
  [regs |-> ZeroRegs, pc |-> 0, tid |-> 0, active |-> FALSE, waiting |-> FALSE,
   futex_addr |-> 0, futex_val |-> 0, clear_child_tid |-> 0, syscall_budget |-> 0]

\* g_sched = {}
ThreadScheduler == [threads |-> [i \in Slots |-> VThread], current |-> 0, count |-> 0]

\* ThreadScheduler::init
sched_init(s, main_tid) ==
  [s EXCEPT !.threads[0].tid = main_tid,
            !.threads[0].active = TRUE,
            !.threads[0].waiting = FALSE,
            !.current = 0,
            !.count = 1]

\* The slot add_thread picks: the first inactive one, or -1.
free_slot(s) ==
  IF \E i \in Slots : ~s.threads[i].active
  THEN CHOOSE i \in Slots : /\ ~s.threads[i].active
                            /\ \A j \in Slots : j < i => s.threads[j].active
  ELSE -1

\* An add_thread that forgets to record the new thread's tid.
add_thread_no_tid(s, tid) ==
  LET i == free_slot(s) IN
  IF i < 0 THEN [sched |-> s, ret |-> -1]
  ELSE [sched |-> [s EXCEPT !.threads[i].active = TRUE,
                            !.threads[i].waiting = FALSE,
                            !.threads[i].clear_child_tid = 0,
                            !.threads[i].syscall_budget = THREAD_QUANTUM,
                            !.count = @ + 1],
        ret |-> i]

\* ThreadScheduler::add_thread.  Returns [sched, ret].
add_thread(s, tid) ==
  LET i == free_slot(s) IN
  IF i < 0 THEN [sched |-> s, ret |-> -1]
  ELSE [sched |-> [s EXCEPT !.threads[i].tid = tid,
                            !.threads[i].active = TRUE,
                            !.threads[i].waiting = FALSE,
                            !.threads[i].clear_child_tid = 0,
                            !.threads[i].syscall_budget = THREAD_QUANTUM,
                            !.count = @ + 1],
        ret |-> i]

\* A pick that takes the first other active slot, waiting or not.
next_runnable_or_waiting(s, skip) ==
  LET ok(i) == i # skip /\ s.threads[i].active IN
  IF \E i \in Slots : ok(i)
  THEN CHOOSE i \in Slots : ok(i) /\ \A j \in Slots : j < i => ~ok(j)
  ELSE -1

\* ThreadScheduler::next_runnable
next_runnable(s, skip) ==
  LET ok(i) == i # skip /\ s.threads[i].active /\ ~s.threads[i].waiting IN
  IF \E i \in Slots : ok(i)
  THEN CHOOSE i \in Slots : ok(i) /\ \A j \in Slots : j < i => ~ok(j)
  ELSE -1

\* A wake that does not stop at max_wake.
wake_unbounded(s, addr, max_wake) ==
  LET hit(i) == s.threads[i].active /\ s.threads[i].waiting
                /\ s.threads[i].futex_addr = addr
      woken == {i \in Slots : hit(i)}
  IN [sched |-> [s EXCEPT !.threads =
                    [i \in Slots |-> IF i \in woken
                                     THEN [s.threads[i] EXCEPT !.waiting = FALSE]
                                     ELSE s.threads[i]]],
      ret |-> Cardinality(woken)]

\* ThreadScheduler::wake.  Returns [sched, ret].
wake(s, addr, max_wake) ==
  LET hit(i) == s.threads[i].active /\ s.threads[i].waiting
                /\ s.threads[i].futex_addr = addr
      woken == {i \in Slots : hit(i) /\ Cardinality({j \in Slots : j < i /\ hit(j)}) < max_wake}
  IN [sched |-> [s EXCEPT !.threads =
                    [i \in Slots |-> IF i \in woken
                                     THEN [s.threads[i] EXCEPT !.waiting = FALSE]
                                     ELSE s.threads[i]]],
      ret |-> Cardinality(woken)]

\* save_thread: the slot after storing the machine's registers and pc.
save_thread(t, r, p) == [t EXCEPT !.regs = r, !.pc = p]

\* A switch that does not save the thread it leaves.
switch_to_thread_no_save(s, r, p, target_idx) ==
  IF target_idx < 0 \/ target_idx = s.current
  THEN [sched |-> s, regs |-> r, pc |-> p, switched |-> FALSE]
  ELSE [sched |-> [s EXCEPT !.current = target_idx,
                            !.threads[target_idx].syscall_budget = THREAD_QUANTUM],
        regs |-> s.threads[target_idx].regs,
        pc |-> s.threads[target_idx].pc,
        switched |-> TRUE]

\* switch_to_thread: [sched, regs, pc, switched] with r, p the machine's state.
switch_to_thread(s, r, p, target_idx) ==
  IF target_idx < 0 \/ target_idx = s.current
  THEN [sched |-> s, regs |-> r, pc |-> p, switched |-> FALSE]
  ELSE [sched |-> [s EXCEPT !.threads[s.current] = save_thread(@, r, p),
                            !.current = target_idx,
                            !.threads[target_idx].syscall_budget = THREAD_QUANTUM],
        regs |-> s.threads[target_idx].regs,
        pc |-> s.threads[target_idx].pc,
        switched |-> TRUE]

\* ------------------------------------------------- syscalls.hpp: ForkState
MemRegion == [data |-> <<>>, addr |-> 0, size |-> 0]

\* g_fork = {}
ForkState ==
  [regs |-> ZeroRegs, pc |-> 0, exit_status |-> 0, child_pid |-> 0,
   in_child |-> FALSE, child_reaped |-> FALSE,
   exec_data |-> MemRegion, interp_data |-> MemRegion,
   stack_data |-> MemRegion, mmap_data |-> MemRegion,
   parent_open_fds |-> {}]

\* g_exec_ctx as nativeLoadRootfs leaves it for a dynamically linked guest.
\* exec_binary and interp_binary hold the bytes of the two images the rootfs
\* was started from; the break fields keep their member initialisers.
ExecContext ==
  [exec_binary |-> <<1, 2>>, interp_binary |-> <<1, 1>>,
   exec_base |-> EXEC_RW_START, interp_base |-> INTERP_RW_START,
   exec_rw_start |-> EXEC_RW_START, exec_rw_end |-> EXEC_RW_END,
   interp_rw_start |-> INTERP_RW_START, interp_rw_end |-> INTERP_RW_END,
   interp_entry |-> EntryPc,
   original_stack_top |-> STACK_TOP,
   heap_start |-> HEAP_START, heap_size |-> HEAP_SIZE,
   brk_base |-> 0, brk_current |-> 0, brk_overridden |-> FALSE,
   dynamic |-> TRUE]

\* g_exec_ctx = {}
NoExecContext ==
  [exec_binary |-> <<>>, interp_binary |-> <<>>,
   exec_base |-> 0, interp_base |-> 0,
   exec_rw_start |-> 0, exec_rw_end |-> 0,
   interp_rw_start |-> 0, interp_rw_end |-> 0,
   interp_entry |-> 0,
   original_stack_top |-> 0,
   heap_start |-> 0, heap_size |-> 0,
   brk_base |-> 0, brk_current |-> 0, brk_overridden |-> FALSE,
   dynamic |-> FALSE]

\* The launcher's view of the VFS objects: g_vfs is the address of the
\* VirtualFS it owns (0 when it owns none), ctx_fs the address held by the
\* SyscallContext that install_syscalls hands to the machine, tar the
\* archive g_vfs was loaded from and loads the number of nativeLoadRootfs
\* calls so far. This is the state after the first nativeLoadRootfs.
LoadedSession == [g_vfs |-> 1, ctx_fs |-> 1, tar |-> 1, loads |-> 1]

\* No snapshot file has been written: file holds the bytes at the snapshot
\* path, ret the flag the last snapshot call returned; last, saved, differed
\* and rejected record what the calls did.
NoSnapshot ==
  [file |-> <<>>, ret |-> FALSE, last |-> "none",
   saved |-> [regs |-> ZeroRegs, pc |-> 0, mem |-> <<>>],
   differed |-> FALSE, rejected |-> FALSE]

\* The snapshot sys_clone takes of [addr, addr + size).
snapshot(m, addr, size) == [data |-> memcpy_out(m, addr, size), addr |-> addr, size |-> size]

\* The `restore` lambda of sys_exit: the memory after one region is put back.
restore(m, r) == IF r.data # <<>> THEN memcpy(m, r.addr, r.data) ELSE m

\* The region with its buffer released.
cleared(r) == IF r.data # <<>> THEN [r EXCEPT !.data = <<>>] ELSE r

\* --------------------------------------------------------- android_io.hpp
\* A try_read_stdin that erases one byte fewer than it hands out.
try_read_stdin_short_erase(buffer, eof, count) ==
  IF buffer # <<>>
  THEN LET to_read == Min(count, Len(buffer)) IN
       [ret |-> to_read,
        data |-> SubSeq(buffer, 1, to_read),
        rest |-> SubSeq(buffer, to_read, Len(buffer))]
  ELSE IF eof THEN [ret |-> 0, data |-> <<>>, rest |-> buffer]
  ELSE [ret |-> -1, data |-> <<>>, rest |-> buffer]

\* try_read_stdin: what the call returns, copies out and leaves queued.
try_read_stdin(buffer, eof, count) ==
  IF buffer # <<>>
  THEN LET to_read == Min(count, Len(buffer)) IN
       [ret |-> to_read,
        data |-> SubSeq(buffer, 1, to_read),
        rest |-> SubSeq(buffer, to_read + 1, Len(buffer))]
  ELSE IF eof THEN [ret |-> 0, data |-> <<>>, rest |-> buffer]
  ELSE [ret |-> -1, data |-> <<>>, rest |-> buffer]

\* The predicate execution_loop hands to stdin_cv.wait.
wait_pred == stdin_buffer # <<>> \/ stdin_eof \/ ~running

\* ------------------------------------------------------------ ghost state
\* hist remembers what the properties compare against: the machine at the
\* last fork-form clone, the cells the parent restore had to put back, the
\* reads parked on stdin, the clone each parked thread is returning from,
\* and the parent's wait4 calls since the last fork cycle.
NoHist ==
  [clone_mem |-> <<>>, clone_span |-> {}, clone_fds |-> <<>>,
   clone_regs |-> ZeroRegs, clone_pc |-> 0,
   cycles |-> 0, exit_code |-> 0, waits |-> 0, undone |-> {},
   blocked |-> FALSE, resumed |-> FALSE, last_avail |-> 0,
   pending_clone |-> [i \in Slots |-> 0], segments |-> <<>>,
   clone_ctx |-> NoExecContext]

\* The parent has run on past its first instruction after a fork cycle: what
\* hist held about the machine at the clone is dropped.
Settled(h) ==
  IF h.cycles = 1
  THEN [h EXCEPT !.cycles = 2, !.clone_mem = <<>>, !.clone_span = {},
                 !.clone_fds = <<>>, !.clone_regs = ZeroRegs, !.clone_pc = 0,
                 !.undone = {}, !.clone_ctx = NoExecContext]
  ELSE h

\* fd -> Entry for every open fd.
fd_entries(f) == [fd \in get_open_fds(f) |-> get_entry(f, fd)]

\* --------------------------------------------------- the guest under simulate
GuestRunning == execPc = "simulating" /\ ~m_stopped

\* The registers of a guest that has loaded a syscall's number and arguments.
Call(nr, a0, a1, a2, a3, a4) ==
  (REG_A7 :> nr) @@ (REG_A0 :> a0) @@ (REG_A1 :> a1) @@ (REG_A2 :> a2)
    @@ (REG_A3 :> a3) @@ (REG_A4 :> a4)

\* Straight-line guest code that ends at an ecall with the registers of c.
GuestSetup(menu, sites) ==
  /\ GuestRunning
  /\ pc \notin EcallSites
  /\ \E c \in menu, site \in sites :
       /\ regs' = [r \in Regs |-> IF r \in ArgRegs THEN c[r] ELSE regs[r]]
       /\ pc' = site
  /\ hist' = Settled(hist)
  /\ UNCHANGED <<m_stopped, mem, mmap_frontier, page_attr, bridgeVars, hostVars,
                 pushed, consumed, fs, procVars>>

\* A guest store instruction.
GuestStore ==
  /\ GuestRunning
  /\ pc \notin EcallSites
  /\ \E a \in Addr, v \in 0..MaxStore :
       /\ mem[a] # v
       /\ mem' = [mem EXCEPT ![a] = v]
  /\ hist' = Settled(hist)
  /\ UNCHANGED <<regs, pc, m_stopped, mmap_frontier, page_attr, bridgeVars, hostVars,
                 pushed, consumed, fs, procVars>>

\* Guest instructions that push or pop a stack frame.
GuestMoveSp ==
  /\ GuestRunning
  /\ pc \notin EcallSites
  /\ \E v \in (STACK_TOP - 1)..STACK_TOP :
       regs[REG_SP] # v /\ regs' = [regs EXCEPT ![REG_SP] = v]
  /\ hist' = Settled(hist)
  /\ UNCHANGED <<pc, m_stopped, mem, mmap_frontier, page_attr, bridgeVars, hostVars,
                 pushed, consumed, fs, procVars>>

\* The ecall at pc dispatches on a7; the handler sees cpu.pc() = pc + 4.
Dispatch(nr) == GuestRunning /\ pc \in EcallSites /\ regs[REG_A7] = nr

cpu_pc == pc + EcallLen

\* m.set_result(v) in a handler that returns to the instruction after the ecall.
Return(v) ==
  /\ regs' = [regs EXCEPT ![REG_A0] = v]
  /\ pc' = cpu_pc

\* ------------------------------------- friscy_runtime.cpp: execution_loop
\* while (android_io::running.load())
ExecLoopTop ==
  /\ execPc = "loop_top"
  /\ retries' = 0
  /\ execPc' = IF running THEN "sim_enter" ELSE "exit_loop"
  /\ UNCHANGED <<machineVars, bridgeVars, uiPc, uiData, ghostVars, fs, procVars, session,
                 snap>>

\* g_machine->simulate(MAX_INSTRUCTIONS) starts: the instruction budget is reset.
ExecSimEnter ==
  /\ execPc = "sim_enter"
  /\ m_stopped' = FALSE
  /\ execPc' = "simulating"
  /\ UNCHANGED <<regs, pc, mem, mmap_frontier, page_attr, bridgeVars, uiPc, uiData, retries,
                 ghostVars, fs, procVars, session, snap>>

\* simulate() returns because the machine was stopped.
ExecSimReturn ==
  /\ execPc = "simulating"
  /\ m_stopped
  /\ execPc' = "after_sim"
  /\ UNCHANGED <<machineVars, bridgeVars, uiPc, uiData, retries, ghostVars, fs, procVars,
                 session, snap>>

\* simulate() runs out of instructions for the last time and the exception
\* leaves the loop (lines 122-136, 165-172).
ExecSimFail ==
  /\ GuestRunning
  /\ pc \notin EcallSites
  /\ execPc' = "exit_loop"
  /\ UNCHANGED <<machineVars, bridgeVars, uiPc, uiData, retries, ghostVars, fs, procVars,
                 session, snap>>

\* if (waiting_for_stdin.load()) ... else { report the exit; break; }
ExecAfterSim ==
  /\ execPc = "after_sim"
  /\ execPc' = IF waiting_for_stdin THEN "clear_waiting" ELSE "exit_loop"
  /\ UNCHANGED <<machineVars, bridgeVars, uiPc, uiData, retries, ghostVars, fs, procVars,
                 session, snap>>

\* waiting_for_stdin.store(false)
ExecClearWaiting ==
  /\ execPc = "clear_waiting"
  /\ waiting_for_stdin' = FALSE
  /\ execPc' = "cv_lock"
  /\ UNCHANGED <<machineVars, stdin_buffer, stdin_eof, running, stdin_mutex,
                 uiPc, uiData, retries, ghostVars, fs, procVars, session, snap>>

\* std::unique_lock<std::mutex> lock(stdin_mutex), and the re-lock after a wake-up.
ExecCvLock ==
  /\ execPc \in {"cv_lock", "cv_woken"}
  /\ stdin_mutex = "free"
  /\ stdin_mutex' = "exec"
  /\ execPc' = "cv_pred"
  /\ UNCHANGED <<machineVars, stdin_buffer, stdin_eof, waiting_for_stdin,
                 running, uiPc, uiData, retries, ghostVars, fs, procVars, session, snap>>

\* stdin_cv.wait evaluates its predicate with the mutex held.
ExecCvPred ==
  /\ execPc = "cv_pred"
  /\ execPc' = IF wait_pred THEN "cv_done" ELSE "cv_wait"
  /\ UNCHANGED <<machineVars, bridgeVars, uiPc, uiData, retries, ghostVars, fs, procVars,
                 session, snap>>

\* The predicate was false: wait releases the mutex and blocks, atomically.
ExecCvBlock ==
  /\ execPc = "cv_wait"
  /\ stdin_mutex' = "free"
  /\ execPc' = "cv_blocked"
  /\ UNCHANGED <<machineVars, stdin_buffer, stdin_eof, waiting_for_stdin,
                 running, uiPc, uiData, retries, ghostVars, fs, procVars, session, snap>>

\* A condition variable may wake without a notification.
ExecSpuriousWake ==
  /\ execPc = "cv_blocked"
  /\ execPc' = "cv_woken"
  /\ UNCHANGED <<machineVars, bridgeVars, uiPc, uiData, retries, ghostVars, fs, procVars,
                 session, snap>>

\* wait returned: if (!running.load()) break; the lock is released on the way.
ExecCvDone ==
  /\ execPc = "cv_done"
  /\ stdin_mutex' = "free"
  /\ execPc' = IF ~running THEN "exit_loop" ELSE "loop_top"
  /\ UNCHANGED <<machineVars, stdin_buffer, stdin_eof, waiting_for_stdin,
                 running, uiPc, uiData, retries, ghostVars, fs, procVars, session, snap>>

\* android_io::running.store(false) after the loop; the thread ends.
ExecFinish ==
  /\ execPc = "exit_loop"
  /\ running' = FALSE
  /\ execPc' = "finished"
  /\ UNCHANGED <<machineVars, stdin_buffer, stdin_eof, waiting_for_stdin, stdin_mutex,
                 uiPc, uiData, retries, ghostVars, fs, procVars, session, snap>>

\* A notification that wakes nobody.
notify_lost == execPc

\* stdin_cv.notify_one(): a thread blocked in wait is woken; nobody else hears it.
notify_one == IF execPc = "cv_blocked" THEN "cv_woken" ELSE execPc

\* ------------------------------------ friscy_runtime.cpp: JNI entry points
\* nativeStart up to the join: running.store(true); waiting_for_stdin.store(false).
NativeStart ==
  /\ uiPc = "idle"
  /\ ~running
  /\ running' = TRUE
  /\ waiting_for_stdin' = FALSE
  /\ uiPc' = "start_join"
  /\ UNCHANGED <<machineVars, stdin_buffer, stdin_eof, stdin_mutex,
                 execPc, uiData, retries, ghostVars, fs, procVars, session, snap>>

\* nativeStart: join the previous thread if there is one, then spawn.
NativeStartSpawn ==
  /\ uiPc = "start_join"
  /\ execPc \in {"none", "finished"}
  /\ execPc' = "loop_top"
  /\ uiPc' = "idle"
  /\ UNCHANGED <<machineVars, bridgeVars, uiData, retries, ghostVars, fs, procVars,
                 session, snap>>

\* nativeSendInput with a non-empty string calls push_stdin.
NativeSendInput ==
  /\ uiPc = "idle"
  /\ \E n \in 1..MaxPushLen : \E data \in [1..n -> Bytes] :
       /\ Len(pushed) + n <= MaxPushed
       /\ uiData' = data
  /\ uiPc' = "push_insert"
  /\ UNCHANGED <<machineVars, bridgeVars, execPc, ghostVars, fs, procVars, retries,
                 session, snap>>

\* push_stdin: the insert under lock_guard(stdin_mutex).
PushInsert ==
  /\ uiPc = "push_insert"
  /\ stdin_mutex = "free"
  /\ stdin_buffer' = stdin_buffer \o uiData
  /\ pushed' = pushed \o uiData
  /\ uiPc' = "push_notify"
  /\ UNCHANGED <<machineVars, stdin_eof, waiting_for_stdin, running, stdin_mutex, execPc,
                 uiData, retries, consumed, hist, fs, procVars, session, snap>>

\* push_stdin: stdin_cv.notify_one() after the lock is released.
PushNotify ==
  /\ uiPc = "push_notify"
  /\ execPc' = notify_one
  /\ uiPc' = "idle"
  /\ uiData' = <<>>
  /\ UNCHANGED <<machineVars, bridgeVars, ghostVars, fs, procVars, retries, session, snap>>

\* nativeStop: if (!running) return; running.store(false) -- no mutex is held.
NativeStop ==
  /\ uiPc = "idle"
  /\ running
  /\ running' = FALSE
  /\ uiPc' = "stop_machine"
  /\ UNCHANGED <<machineVars, stdin_buffer, stdin_eof, waiting_for_stdin, stdin_mutex,
                 execPc, uiData, retries, ghostVars, fs, procVars, session, snap>>

\* nativeStop: g_machine->stop().  The write races with simulate(); it
\* either reaches the running simulation or is lost.
StopMachine ==
  /\ uiPc = "stop_machine"
  /\ \E seen \in BOOLEAN : m_stopped' = (m_stopped \/ seen)
  /\ uiPc' = "stop_notify"
  /\ UNCHANGED <<regs, pc, mem, mmap_frontier, page_attr, bridgeVars, execPc, uiData,
                 retries, ghostVars, fs, procVars, session, snap>>

\* nativeStop: stdin_cv.notify_one()
StopNotify ==
  /\ uiPc = "stop_notify"
  /\ execPc' = notify_one
  /\ uiPc' = "stop_join"
  /\ UNCHANGED <<machineVars, bridgeVars, uiData, retries, ghostVars, fs, procVars,
                 session, snap>>

\* nativeStop: g_exec_thread.join() returns once the thread has ended.
StopJoin ==
  /\ uiPc = "stop_join"
  /\ execPc \in {"none", "finished"}
  /\ uiPc' = "idle"
  /\ UNCHANGED <<machineVars, bridgeVars, execPc, uiData, retries, ghostVars, fs,
                 procVars, session, snap>>

\* ------------------------------------------- syscalls.hpp: file descriptors
sys_openat ==
  /\ Dispatch(NR_openat)
  /\ LET dirfd == regs[REG_A0]
         path_addr == regs[REG_A1]
         flags == regs[REG_A2]
         r == IF HasFlag(flags, O_DIRECTORY)
              THEN vfs_opendir(fs, PathAt[path_addr])
              ELSE vfs_open(fs, PathAt[path_addr], flags)
     IN IF dirfd # AT_FDCWD THEN Return(-ENOTSUP) /\ fs' = fs
        ELSE IF path_addr \notin DOMAIN PathAt THEN Return(-EINVAL) /\ fs' = fs
        ELSE Return(r.ret) /\ fs' = r.fs
  /\ UNCHANGED <<m_stopped, mem, mmap_frontier, page_attr, bridgeVars, hostVars,
                 ghostVars, procVars>>

sys_close ==
  /\ Dispatch(NR_close)
  /\ fs' = vfs_close(fs, regs[REG_A0])
  /\ Return(0)
  /\ UNCHANGED <<m_stopped, mem, mmap_frontier, page_attr, bridgeVars, hostVars,
                 ghostVars, procVars>>

sys_dup3 ==
  /\ Dispatch(NR_dup3)
  /\ LET oldfd == regs[REG_A0]
         newfd == regs[REG_A1]
         r == vfs_dup2(fs, oldfd, newfd)
     IN IF oldfd = newfd THEN Return(-EINVAL) /\ fs' = fs
        ELSE Return(r.ret) /\ fs' = r.fs
  /\ UNCHANGED <<m_stopped, mem, mmap_frontier, page_attr, bridgeVars, hostVars,
                 ghostVars, procVars>>

\* sys_pipe2: a fresh Fifo Entry, a handle for each end, the two fds stored
\* at pipefd_addr.
sys_pipe2 ==
  /\ Dispatch(NR_pipe2)
  /\ LET pipefd_addr == regs[REG_A0]
         pipe_entry == new_entry(fs)
         f0 == [fs EXCEPT !.entries = Append(@, Entry(FT_Fifo))]
         rd == open_pipe(f0, pipe_entry, 0)
         wr == open_pipe(rd.fs, pipe_entry, 1)
     IN /\ InArena(pipefd_addr, 2)
        /\ fs' = wr.fs
        /\ mem' = memcpy(mem, pipefd_addr, <<rd.ret, wr.ret>>)
        /\ Return(0)
  /\ UNCHANGED <<m_stopped, mmap_frontier, page_attr, bridgeVars, hostVars, ghostVars,
                 procVars>>

\* A handler that parks the read without moving the pc back onto the ecall.
stdin_would_block_no_rewind ==
  /\ waiting_for_stdin' = TRUE
  /\ pc' = cpu_pc
  /\ m_stopped' = TRUE
  /\ hist' = [hist EXCEPT !.blocked = TRUE]
  /\ UNCHANGED <<regs, mem, stdin_buffer, consumed, fs>>

\* sys_read, lines 1122-1129: no data on the host's stdin.  The flag is
\* raised, the pc goes back onto the ecall, the machine stops; a0 is left.
stdin_would_block ==
  /\ waiting_for_stdin' = TRUE
  /\ pc' = cpu_pc - 4
  /\ m_stopped' = TRUE
  /\ hist' = [hist EXCEPT !.blocked = TRUE]
  /\ UNCHANGED <<regs, mem, stdin_buffer, consumed, fs>>

\* sys_read, lines 1113-1121: bytes (or EOF) from the host's stdin queue.
stdin_deliver(t, buf_addr, avail) ==
  /\ mem' = IF t.ret > 0 THEN memcpy(mem, buf_addr, t.data) ELSE mem
  /\ Return(t.ret)
  /\ stdin_buffer' = t.rest
  /\ consumed' = consumed \o t.data
  /\ hist' = [hist EXCEPT !.blocked = FALSE, !.resumed = hist.blocked,
                          !.last_avail = avail]
  /\ UNCHANGED <<waiting_for_stdin, m_stopped, fs>>

\* sys_read through the VFS (fd 0 remapped, or any other fd).
vfs_deliver(r, buf_addr) ==
  /\ mem' = IF r.ret > 0 THEN memcpy(mem, buf_addr, r.data) ELSE mem
  /\ Return(r.ret)
  /\ fs' = r.fs
  /\ UNCHANGED <<waiting_for_stdin, m_stopped, stdin_buffer, consumed, hist>>

sys_read ==
  /\ Dispatch(NR_read)
  /\ LET fd == regs[REG_A0]
         buf_addr == regs[REG_A1]
         count == regs[REG_A2]
         t == try_read_stdin(stdin_buffer, stdin_eof, count)
     IN /\ InArena(buf_addr, count)
        /\ IF fd = 0 /\ ~is_open(fs, fd)
           THEN /\ stdin_mutex = "free"
                /\ IF t.ret >= 0
                   THEN stdin_deliver(t, buf_addr, Len(stdin_buffer))
                   ELSE stdin_would_block
           ELSE \E junk \in Cell : vfs_deliver(vfs_read(fs, fd, count, junk), buf_addr)
  /\ UNCHANGED <<mmap_frontier, page_attr, stdin_eof, running, stdin_mutex, hostVars,
                 pushed, procVars>>

sys_write ==
  /\ Dispatch(NR_write)
  /\ LET fd == regs[REG_A0]
         buf_addr == regs[REG_A1]
         count == regs[REG_A2]
         r == vfs_write(fs, fd, memcpy_out(mem, buf_addr, count))
     IN /\ InArena(buf_addr, count)
        /\ IF is_open(fs, fd) THEN Return(r.ret) /\ fs' = r.fs
           ELSE IF fd = 1 \/ fd = 2 THEN Return(count) /\ fs' = fs
           ELSE Return(-EBADF) /\ fs' = fs
  /\ UNCHANGED <<m_stopped, mem, mmap_frontier, page_attr, bridgeVars, hostVars,
                 ghostVars, procVars>>

\* ------------------------------------- syscalls.hpp: threads, fork and exit
\* The thread in slot i runs again: it is no longer returning from a clone.
Resumed(h, i) == [h EXCEPT !.pending_clone[i] = 0]

\* The tid sys_gettid reports under scheduler s.
current_tid(s) == IF s.count > 0 THEN s.threads[s.current].tid ELSE 1

sys_gettid ==
  /\ Dispatch(NR_gettid)
  /\ Return(current_tid(g_sched))
  /\ UNCHANGED <<m_stopped, mem, mmap_frontier, page_attr, bridgeVars, hostVars,
                 ghostVars, fs, procVars>>

sys_sched_yield ==
  /\ Dispatch(NR_sched_yield)
  /\ LET r0 == [regs EXCEPT ![REG_A0] = 0]
         next == IF g_sched.count > 1 THEN next_runnable(g_sched, g_sched.current) ELSE -1
         sw == switch_to_thread(g_sched, r0, cpu_pc, next)
     IN /\ regs' = sw.regs
        /\ pc' = sw.pc
        /\ g_sched' = sw.sched
        /\ hist' = IF sw.switched THEN Resumed(hist, next) ELSE hist
  /\ UNCHANGED <<m_stopped, mem, mmap_frontier, page_attr, bridgeVars, hostVars, pushed,
                 consumed,
                 fs, g_fork, g_next_pid, g_exec_ctx>>

\* The four regions a fork-form clone snapshots, as sets of addresses.
R1(ctx) == {a \in Addr : a >= ctx.exec_rw_start
                         /\ a < Max(ctx.exec_rw_end, ctx.heap_start)}

R2(ctx) == {a \in Addr : a >= ctx.interp_rw_start /\ a < ctx.interp_rw_end}

R3(ctx, sp) == {a \in Addr : a >= sp /\ a < ctx.original_stack_top}

R4(ctx, frontier) == {a \in Addr : a >= ctx.heap_start + ctx.heap_size /\ a < frontier}

\* sys_clone, lines 537-589: a cooperative thread.
clone_thread ==
  LET flags == regs[REG_A0]
      child_stack == regs[REG_A1]
      parent_tidptr == regs[REG_A2]
      tls == regs[REG_A3]
      child_tidptr == regs[REG_A4]
      tid == g_next_pid
      s0 == IF g_sched.count = 0 THEN sched_init(g_sched, (g_next_pid + 1) - 2) ELSE g_sched
      added == add_thread(s0, tid)
      child_idx == added.ret
      parent_idx == s0.current
      s1 == [added.sched EXCEPT
               !.threads[parent_idx] =
                  [save_thread(@, regs, cpu_pc) EXCEPT !.regs[REG_A0] = tid]]
      s2 == IF HasFlag(flags, F_CLONE_CHILD_CLEARTID)
            THEN [s1 EXCEPT !.threads[child_idx].clear_child_tid = child_tidptr]
            ELSE s1
  IN /\ g_next_pid' = g_next_pid + 1
     /\ mem' = IF HasFlag(flags, F_CLONE_PARENT_SETTID) /\ parent_tidptr # 0
               THEN write32(mem, parent_tidptr, tid) ELSE mem
     /\ pc' = cpu_pc
     /\ IF child_idx < 0
        THEN /\ regs' = [regs EXCEPT ![REG_A0] = tid]
             /\ g_sched' = s0
             /\ hist' = hist
        ELSE /\ regs' = [regs EXCEPT ![REG_SP] = child_stack,
                                     ![REG_A0] = 0,
                                     ![REG_TP] = IF HasFlag(flags, F_CLONE_SETTLS)
                                                 THEN tls ELSE @]
             /\ g_sched' = [s2 EXCEPT !.current = child_idx,
                                      !.threads[child_idx].pc = cpu_pc]
             /\ hist' = IF child_idx # parent_idx
                        THEN [hist EXCEPT !.pending_clone[parent_idx] = tid,
                                          !.pending_clone[child_idx] = 0]
                        ELSE hist
     /\ UNCHANGED <<g_fork, fs, page_attr, execPc, retries>>

\* A refusal that still takes a PID from the counter.
nested_fork_takes_pid ==
  /\ Return(-EAGAIN)
  /\ g_next_pid' = g_next_pid + 1
  /\ UNCHANGED <<g_fork, mem, g_sched, hist, fs, page_attr, execPc, retries>>

\* sys_clone, lines 591-594: a fork while the child runs is refused before
\* anything is written.
nested_fork ==
  /\ Return(-EAGAIN)
  /\ UNCHANGED <<g_fork, g_next_pid, mem, g_sched, hist, fs, page_attr, execPc, retries>>

\* The lowest page of [addr, addr + size) that memcpy_out cannot read, 0
\* when every page is readable.
memcpy_fault(pa, addr, size) ==
  LET bad == {a \in Addr : a >= addr /\ a < addr + size /\ pa[a] % 2 = 0}
  IN IF bad = {} THEN 0 ELSE CHOOSE a \in bad : \A b \in bad : a <= b

\* A region whose copy stopped at a page fault: addr and size are set, the
\* buffer is resized (keeping what an earlier fork left in it) and holds
\* the new bytes below the faulting page.
snapshot_upto(old, m, addr, size, fault) ==
  [data |-> [i \in 1..size |-> IF addr + i - 1 < fault THEN m[addr + i - 1]
                               ELSE IF i <= Len(old.data) THEN old.data[i] ELSE 0],
   addr |-> addr, size |-> size]

\* One region block of sys_clone: skipped when an earlier copy threw or the
\* block's condition is false; sv = [fork, fault] is the fork state so far
\* and the address the save faulted at.
save_region(sv, pa, m, field, cond, addr, size) ==
  IF sv.fault # 0 \/ ~cond THEN sv
  ELSE IF memcpy_fault(pa, addr, size) = 0
       THEN [sv EXCEPT !.fork[field] = snapshot(m, addr, size)]
       ELSE [fork |-> [sv.fork EXCEPT
                         ![field] = snapshot_upto(@, m, addr, size,
                                                  memcpy_fault(pa, addr, size))],
             fault |-> memcpy_fault(pa, addr, size)]

\* sys_clone, lines 598-668: the registers and the four regions are saved
\* in order; pa holds the page attributes after region 1 was made RWX.
fork_save(f, ctx, m, r, p, frontier, pa, pid) ==
  save_region(
    save_region(
      save_region(
        save_region([fork |-> [f EXCEPT !.regs = r, !.pc = p, !.child_pid = pid,
                                        !.exit_status = 0],
                     fault |-> 0],
                    pa, m, "exec_data",
                    ctx.exec_rw_start > 0
                      /\ Max(ctx.heap_start, ctx.exec_rw_end) > ctx.exec_rw_start,
                    ctx.exec_rw_start,
                    Max(ctx.heap_start, ctx.exec_rw_end) - ctx.exec_rw_start),
        pa, m, "interp_data",
        ctx.interp_rw_start > 0 /\ ctx.interp_rw_end > ctx.interp_rw_start,
        ctx.interp_rw_start, ctx.interp_rw_end - ctx.interp_rw_start),
      pa, m, "stack_data", TRUE, r[REG_SP], ctx.original_stack_top - r[REG_SP]),
    pa, m, "mmap_data",
    ctx.heap_start > 0 /\ ctx.heap_size > 0
      /\ frontier > ctx.heap_start + ctx.heap_size,
    ctx.heap_start + ctx.heap_size, frontier - (ctx.heap_start + ctx.heap_size))

\* The page attributes after the region 1 block (lines 621-631).
fork_attrs(ctx, pa) ==
  IF ctx.exec_rw_start > 0 /\ Max(ctx.heap_start, ctx.exec_rw_end) > ctx.exec_rw_start
  THEN set_page_attr(pa, ctx.exec_rw_start,
                     Max(ctx.heap_start, ctx.exec_rw_end) - ctx.exec_rw_start,
                     PageAttributes(TRUE, TRUE, TRUE))
  ELSE pa

\* execution_loop, lines 118-134, after the handler threw at page `fault`:
\* the page is made RWX and simulate() is called again, or the exception
\* leaves the loop on the last retry.
retry_page_fault(pa, fault) ==
  IF retries < MAX_RETRIES - 1
  THEN /\ page_attr' = set_page_attr(pa, fault, 1, PageAttributes(TRUE, TRUE, TRUE))
       /\ retries' = retries + 1
       /\ execPc' = execPc
  ELSE /\ page_attr' = pa
       /\ execPc' = "exit_loop"
       /\ retries' = retries

\* A fault path that has already marked the fork as started.
fork_fault_in_child(sv, pa) ==
  /\ g_fork' = [sv.fork EXCEPT !.in_child = TRUE]
  /\ g_next_pid' = g_next_pid + 1
  /\ retry_page_fault(pa, sv.fault)
  /\ UNCHANGED <<regs, pc, mem, g_sched, hist, fs>>

\* memcpy_out threw inside sys_clone: what the handler wrote so far stays,
\* in_child is not written and the pc is still at the ecall, so the
\* handler runs again when simulate() resumes.
fork_fault(sv, pa) ==
  /\ g_fork' = sv.fork
  /\ g_next_pid' = g_next_pid + 1
  /\ retry_page_fault(pa, sv.fault)
  /\ UNCHANGED <<regs, pc, mem, g_sched, hist, fs>>

\* sys_clone, lines 670-680: every copy succeeded; the fd set is saved and
\* only now in_child is set.
fork_commit(sv, pa) ==
  /\ g_fork' = [sv.fork EXCEPT !.parent_open_fds = get_open_fds(fs),
                               !.in_child = TRUE,
                               !.child_reaped = FALSE]
  /\ page_attr' = pa
  /\ g_next_pid' = g_next_pid + 1
  /\ Return(0)
  /\ hist' = [hist EXCEPT
                !.clone_mem = [a \in R1(g_exec_ctx) \cup R2(g_exec_ctx)
                                    \cup R3(g_exec_ctx, regs[REG_SP])
                                    \cup R4(g_exec_ctx, mmap_frontier) |-> mem[a]],
                !.clone_span = R1(g_exec_ctx) \cup R2(g_exec_ctx)
                                 \cup R3(g_exec_ctx, regs[REG_SP])
                                 \cup R4(g_exec_ctx, mmap_frontier),
                !.clone_fds = fd_entries(fs),
                !.clone_regs = regs,
                !.clone_pc = cpu_pc,
                !.clone_ctx = g_exec_ctx,
                !.cycles = 0,
                !.waits = 0,
                !.undone = {}]
  /\ UNCHANGED <<mem, g_sched, fs, execPc, retries>>

\* The outcome of the save: committed, or abandoned at a fault.
fork_outcome(sv, pa) == IF sv.fault = 0 THEN fork_commit(sv, pa) ELSE fork_fault(sv, pa)

\* sys_clone, lines 591-687: the cooperative fork.
clone_fork ==
  IF g_fork.in_child
  THEN nested_fork
  ELSE /\ regs[REG_SP] <= g_exec_ctx.original_stack_top
       /\ fork_outcome(fork_save(g_fork, g_exec_ctx, mem, regs, cpu_pc, mmap_frontier,
                                 fork_attrs(g_exec_ctx, page_attr), g_next_pid),
                       fork_attrs(g_exec_ctx, page_attr))

sys_clone ==
  /\ Dispatch(NR_clone)
  /\ LET flags == regs[REG_A0] IN
     IF HasFlag(flags, F_CLONE_THREAD)
        \/ (HasFlag(flags, F_CLONE_VM) /\ ~HasFlag(flags, F_CLONE_VFORK))
     THEN clone_thread
     ELSE clone_fork
  /\ UNCHANGED <<m_stopped, mmap_frontier, bridgeVars, uiPc, uiData, session, snap,
                 pushed, consumed, g_exec_ctx>>

sys_wait4 ==
  /\ Dispatch(NR_wait4)
  /\ LET wstatus_addr == regs[REG_A1]
         wstatus == (g_fork.exit_status % 256) * 256
     IN IF g_fork.child_reaped \/ g_fork.child_pid = 0
        THEN /\ Return(-ECHILD)
             /\ UNCHANGED <<mem, g_fork>>
        ELSE /\ mem' = IF wstatus_addr # 0 THEN write32(mem, wstatus_addr, wstatus) ELSE mem
             /\ g_fork' = [g_fork EXCEPT !.child_reaped = TRUE]
             /\ Return(g_fork.child_pid)
  /\ hist' = IF g_fork.in_child THEN hist
             ELSE [hist EXCEPT !.waits = Min(@ + 1, 2)]
  /\ UNCHANGED <<m_stopped, mmap_frontier, page_attr, bridgeVars, hostVars, pushed,
                 consumed, fs,
                 g_next_pid, g_sched, g_exec_ctx>>

\* A restore that forgets the mmap buffer.
restore_regions_no_mmap(m, f) ==
  restore(restore(restore(m, f.exec_data), f.interp_data), f.stack_data)

\* sys_exit, lines 486-497: the four buffers are copied back in this order.
restore_regions(m, f) ==
  restore(restore(restore(restore(m, f.exec_data), f.interp_data), f.stack_data),
          f.mmap_data)

\* sys_exit, lines 499-511: close every fd that is not in the parent's set.
close_child_fds(f, parent_open_fds) ==
  [f EXCEPT !.open_files_ = [fd \in (DOMAIN @) \cap parent_open_fds |-> @[fd]],
            !.open_dirs_ = [fd \in (DOMAIN @) \cap parent_open_fds |-> @[fd]]]

\* sys_exit, lines 457-484: the fix_perms lambda over the four regions.
fix_perms(pa, addr, size) ==
  IF addr > 0 /\ size > 0
  THEN set_page_attr(pa, addr, size, PageAttributes(TRUE, TRUE, TRUE))
  ELSE pa

fix_regions(pa, ctx, f) ==
  LET save_end == Max(ctx.heap_start, ctx.exec_rw_end)
      p1 == fix_perms(pa, ctx.exec_rw_start, save_end - ctx.exec_rw_start)
      p2 == fix_perms(p1, ctx.interp_rw_start, ctx.interp_rw_end - ctx.interp_rw_start)
      p3 == IF f.mmap_data.size > 0
            THEN fix_perms(p2, f.mmap_data.addr, f.mmap_data.size) ELSE p2
  IN fix_perms(p3, f.regs[REG_SP], ctx.original_stack_top - f.regs[REG_SP])

\* sys_exit, lines 447-522: the fork child exits and the parent resumes.
fork_child_exit(exit_code, m1, s2) ==
  /\ g_fork' = [g_fork EXCEPT !.exit_status = exit_code,
                              !.in_child = FALSE,
                              !.exec_data = cleared(@),
                              !.interp_data = cleared(@),
                              !.stack_data = cleared(@),
                              !.mmap_data = cleared(@),
                              !.parent_open_fds = {}]
  /\ page_attr' = fix_regions(page_attr, g_exec_ctx, g_fork)
  /\ mem' = restore_regions(m1, g_fork)
  /\ fs' = close_child_fds(fs, g_fork.parent_open_fds)
  /\ regs' = [g_fork.regs EXCEPT ![REG_A0] = g_fork.child_pid]
  /\ pc' = g_fork.pc
  /\ g_sched' = s2
  /\ hist' = [hist EXCEPT !.cycles = 1, !.exit_code = exit_code, !.waits = 0,
                          !.undone = {a \in hist.clone_span : m1[a] # hist.clone_mem[a]}]
  /\ UNCHANGED m_stopped

\* A thread exit that makes the next slot current without loading its
\* registers and PC.
thread_exit_keeps_regs(next, m1, s2) ==
  /\ Return(0)
  /\ g_sched' = [s2 EXCEPT !.current = next]
  /\ mem' = m1
  /\ hist' = Resumed(hist, next)
  /\ UNCHANGED <<m_stopped, g_fork, fs, page_attr>>

\* sys_exit, lines 423-445: a cooperative thread exits and another one runs.
thread_exit(next, m1, s2) ==
  /\ regs' = s2.threads[next].regs
  /\ pc' = s2.threads[next].pc
  /\ g_sched' = [s2 EXCEPT !.current = next]
  /\ mem' = m1
  /\ hist' = Resumed(hist, next)
  /\ UNCHANGED <<m_stopped, g_fork, fs, page_attr>>

\* sys_exit, lines 523-526: the main thread exits and the machine stops.
main_exit(exit_code, m1, s2) ==
  /\ m_stopped' = TRUE
  /\ Return(exit_code)
  /\ g_sched' = s2
  /\ mem' = m1
  /\ UNCHANGED <<g_fork, fs, hist, page_attr>>

\* The body of sys_exit (also entered from sys_exit_group).
sys_exit_body ==
  LET exit_code == regs[REG_A0]
      thread_path == g_sched.count > 1 /\ g_sched.current # 0
      exiting == g_sched.current
      t == g_sched.threads[exiting]
      clears == thread_path /\ t.clear_child_tid # 0
      m1 == IF clears THEN write32(mem, t.clear_child_tid, 0) ELSE mem
      s1 == IF clears THEN wake(g_sched, t.clear_child_tid, 1).sched ELSE g_sched
      s2 == IF thread_path
            THEN [s1 EXCEPT !.threads[exiting].active = FALSE,
                            !.threads[exiting].waiting = FALSE,
                            !.count = @ - 1]
            ELSE g_sched
      next == IF thread_path THEN next_runnable(s2, exiting) ELSE -1
  IN IF next >= 0 THEN thread_exit(next, m1, s2)
     ELSE IF g_fork.in_child THEN fork_child_exit(exit_code, m1, s2)
     ELSE main_exit(exit_code, m1, s2)

sys_exit ==
  /\ Dispatch(NR_exit)
  /\ sys_exit_body
  /\ UNCHANGED <<mmap_frontier, bridgeVars, hostVars, pushed, consumed, g_next_pid,
                 g_exec_ctx>>

sys_exit_group ==
  /\ Dispatch(NR_exit_group)
  /\ IF g_fork.in_child
     THEN sys_exit_body
     ELSE /\ g_sched' = [g_sched EXCEPT
                           !.threads = [i \in Slots |->
                                          [@[i] EXCEPT !.active = FALSE, !.waiting = FALSE]],
                           !.count = 0]
          /\ m_stopped' = TRUE
          /\ Return(regs[REG_A0])
          /\ hist' = [hist EXCEPT !.pending_clone = [i \in Slots |-> 0]]
          /\ UNCHANGED <<mem, g_fork, fs, page_attr>>
  /\ UNCHANGED <<mmap_frontier, bridgeVars, hostVars, pushed, consumed, g_next_pid,
                 g_exec_ctx>>

\* maybe_preempt: [sched, regs, pc, next] with r, p the machine's state;
\* next is the slot switched to, or -1.
maybe_preempt(s, r, p) ==
  LET cur == s.threads[s.current]
      next == next_runnable(s, s.current)
      sw == switch_to_thread(s, r, p, next)
  IN IF s.count <= 1 THEN [sched |-> s, regs |-> r, pc |-> p, next |-> -1]
     ELSE IF cur.syscall_budget > 0
          THEN [sched |-> [s EXCEPT !.threads[s.current].syscall_budget = @ - 1],
                regs |-> r, pc |-> p, next |-> -1]
     ELSE IF next >= 0
          THEN [sched |-> sw.sched, regs |-> sw.regs, pc |-> sw.pc, next |-> next]
     ELSE [sched |-> [s EXCEPT !.threads[s.current].syscall_budget = THREAD_QUANTUM],
           regs |-> r, pc |-> p, next |-> -1]

\* sys_mmap, lines 1515-1527: an anonymous mapping is served by the
\* emulator's bump allocator at the mmap frontier.
sys_mmap ==
  /\ Dispatch(NR_mmap)
  /\ regs[REG_A4] = -1
  /\ LET length == regs[REG_A1]
         mp == maybe_preempt(g_sched, [regs EXCEPT ![REG_A0] = mmap_frontier], cpu_pc)
     IN /\ mmap_frontier + length <= MMAP_LIMIT
        /\ mmap_frontier' = mmap_frontier + length
        /\ regs' = mp.regs
        /\ pc' = mp.pc
        /\ g_sched' = mp.sched
        /\ hist' = IF mp.next >= 0 THEN Resumed(hist, mp.next) ELSE hist
  /\ UNCHANGED <<m_stopped, mem, page_attr, bridgeVars, hostVars, pushed, consumed, fs,
                 g_fork, g_next_pid, g_exec_ctx>>

\* -------------------------------------------------------------- the specs
\* The state nativeLoadRootfs leaves: machine at the entry point, empty
\* bridge, no thread.
InitLoaded ==
  /\ regs = [ZeroRegs EXCEPT ![REG_SP] = STACK_TOP - 1]
  /\ pc = EntryPc
  /\ m_stopped = FALSE
  /\ mem = [a \in Addr |-> 0]
  /\ mmap_frontier = HEAP_START + HEAP_SIZE
  /\ page_attr = [a \in Addr |-> PageAttributes(TRUE, TRUE, FALSE)]
  /\ stdin_buffer = <<>>
  /\ stdin_eof = FALSE
  /\ waiting_for_stdin = FALSE
  /\ stdin_mutex = "free"
  /\ uiPc = "idle"
  /\ uiData = <<>>
  /\ retries = 0
  /\ session = LoadedSession
  /\ snap = NoSnapshot
  /\ pushed = <<>>
  /\ consumed = <<>>
  /\ fs = LoadedFs
  /\ g_fork = ForkState
  /\ g_next_pid = FIRST_PID
  /\ g_sched = ThreadScheduler
  /\ g_exec_ctx = ExecContext
  /\ hist = NoHist

\* Host I/O: the UI thread starts, feeds and stops the execution thread
\* while the guest reads fd 0.
InitIO == InitLoaded /\ running = FALSE /\ execPc = "none"

IOBuf == STACK_TOP - MaxCount

IOMenu ==
  {Call(NR_read, 0, IOBuf, n, 0, 0) : n \in 1..MaxCount}
    \cup {Call(NR_exit, 0, 0, 0, 0, 0)}
    \cup (IF fs.next_fd_ = FIRST_FD
          THEN {Call(NR_openat, AT_FDCWD, 100, O_RDONLY, 0, 0)} ELSE {})
    \cup (IF is_open(fs, FIRST_FD) /\ ~is_open(fs, 0)
          THEN {Call(NR_dup3, FIRST_FD, 0, 0, 0, 0)} ELSE {})

GuestIO == GuestSetup(IOMenu, {8})

ExecStep ==
  \/ ExecLoopTop \/ ExecSimEnter \/ ExecSimReturn \/ ExecAfterSim \/ ExecClearWaiting
  \/ ExecCvLock \/ ExecCvPred \/ ExecCvBlock \/ ExecCvDone \/ ExecFinish

GuestStepIO == GuestIO \/ sys_read \/ sys_openat \/ sys_dup3 \/ sys_exit

UiStep == NativeStartSpawn \/ PushInsert \/ PushNotify \/ StopMachine \/ StopNotify \/ StopJoin

NextIO ==
  \/ GuestIO \/ sys_read \/ sys_openat \/ sys_dup3 \/ sys_exit
  \/ ExecLoopTop \/ ExecSimEnter \/ ExecSimReturn \/ ExecSimFail \/ ExecAfterSim
  \/ ExecClearWaiting \/ ExecCvLock \/ ExecCvPred \/ ExecCvBlock \/ ExecSpuriousWake
  \/ ExecCvDone \/ ExecFinish
  \/ NativeStart \/ NativeStartSpawn \/ NativeSendInput \/ PushInsert \/ PushNotify
  \/ NativeStop \/ StopMachine \/ StopNotify \/ StopJoin

SpecIO == InitIO /\ [][NextIO]_vars

\* The OS schedules both threads; a simulation's instruction budget is finite.
FairIO ==
  /\ WF_vars(ExecStep \/ GuestStepIO)
  /\ WF_vars(UiStep)
  /\ SF_vars(ExecSimFail)

FairSpecIO == SpecIO /\ FairIO

\* ------------------------------------------------------ properties: host I/O
\* A read of the host's stdin: fd 0 with no VFS handle on it.
StdinRead == sys_read /\ regs[REG_A0] = 0 /\ ~is_open(fs, 0)

\* C6: a read on fd 0 that finds fd 0 unmapped in the VFS, the stdin queue
\* empty and no EOF moves the pc 4 bytes back (onto the ecall), stops the
\* machine, sets waiting_for_stdin, writes no result into a0 (no register
\* changes) and consumes no byte of the queue.
C6_BlockedReadParks ==
  [][(StdinRead /\ stdin_buffer = <<>> /\ ~stdin_eof)
       => /\ pc' = cpu_pc - 4
          /\ pc' \in EcallSites
          /\ m_stopped'
          /\ waiting_for_stdin'
          /\ regs' = regs
          /\ stdin_buffer' = stdin_buffer
          /\ consumed' = consumed]_vars

\* A read is parked on the ecall with the machine stopped and the flag set.
C6_Witness ==
  /\ hist.blocked
  /\ waiting_for_stdin
  /\ m_stopped
  /\ pc \in EcallSites
  /\ regs[REG_A7] = NR_read
  /\ regs[REG_A0] = 0
  /\ stdin_buffer = <<>>

\* C7: once a read is parked and bytes are in the queue, then (unless
\* running is cleared) the execution thread wakes, the same ecall runs
\* again with its arguments intact and returns min(count, queued bytes).
C7_PushWakesRead ==
  (hist.blocked /\ stdin_buffer # <<>>)
    ~> \/ ~running
       \/ /\ ~hist.blocked
          /\ hist.resumed
          /\ pc \notin EcallSites
          /\ regs[REG_A7] = NR_read
          /\ hist.last_avail >= 1
          /\ regs[REG_A0] = Min(regs[REG_A2], hist.last_avail)

\* A parked read has been completed by pushed bytes while running is set.
C7_Witness ==
  /\ hist.resumed
  /\ ~hist.blocked
  /\ running
  /\ regs[REG_A7] = NR_read
  /\ regs[REG_A0] = Min(regs[REG_A2], hist.last_avail)
  /\ regs[REG_A0] >= 1
  /\ Len(consumed) = regs[REG_A0]

\* C8: once nativeStop has cleared running, the execution thread leaves
\* its loop and the join returns, whatever the interleaving.
C8_StopJoins ==
  (uiPc = "stop_machine") ~> (uiPc = "idle" /\ execPc = "finished")

\* The stop arrived between the predicate's evaluation and the blocking.
C8_Witness ==
  /\ uiPc = "stop_join"
  /\ execPc = "cv_blocked"
  /\ ~running

\* C9: the bytes handed out by try_read_stdin, in order, followed by the
\* bytes still queued are exactly the bytes pushed (nothing lost,
\* duplicated or reordered), and each call hands out at most count bytes,
\* taken from the head of the queue.
C9_StdinFifo ==
  /\ [](consumed \o stdin_buffer = pushed)
  /\ [][(StdinRead /\ stdin_buffer # <<>>)
          => LET n == regs'[REG_A0] IN
             /\ n >= 0
             /\ n <= regs[REG_A2]
             /\ n <= Len(stdin_buffer)
             /\ consumed' = consumed \o SubSeq(stdin_buffer, 1, n)
             /\ stdin_buffer' = SubSeq(stdin_buffer, n + 1, Len(stdin_buffer))
             /\ memcpy_out(mem', regs[REG_A1], n) = SubSeq(stdin_buffer, 1, n)]_vars

\* Two reads have drained part of what two pushes queued.
C9_Witness ==
  /\ Len(pushed) = MaxPushed
  /\ Len(consumed) >= 1
  /\ stdin_buffer # <<>>
  /\ consumed \o stdin_buffer = pushed

\* ------------------------------------------------ specs: fork and memory
\* The execution thread is inside simulate() and the guest runs.
InitGuest == InitLoaded /\ running = TRUE /\ execPc = "simulating"

\* clone flags of fork() and of vfork().
ForkFlags == {0, F_CLONE_VM + F_CLONE_VFORK}

ForkCalls ==
  IF g_next_pid < FIRST_PID + MaxForks
  THEN {Call(NR_clone, fl, 0, 0, 0, 0) : fl \in ForkFlags} ELSE {}

ExitCalls(codes) ==
  {Call(nr, c, 0, 0, 0, 0) : nr \in {NR_exit, NR_exit_group}, c \in codes}

MmapCalls ==
  IF mmap_frontier < MMAP_LIMIT THEN {Call(NR_mmap, 0, 1, 0, 0, -1)} ELSE {}

MemMenu == ForkCalls \cup ExitCalls({0}) \cup MmapCalls

GuestMem == GuestSetup(MemMenu, {8})

NextMem ==
  \/ GuestMem \/ GuestStore \/ GuestMoveSp
  \/ sys_clone \/ sys_exit \/ sys_exit_group \/ sys_mmap

SpecMem == InitGuest /\ [][NextMem]_vars

\* ------------------------------------------- properties: fork and memory
\* The step in which sys_exit hands the machine back to the forking parent.
ParentRestored == g_fork.in_child /\ ~g_fork'.in_child

FdBuf == STACK_TOP - MaxCount

OpenCalls ==
  IF fs.next_fd_ <= MaxFd
  THEN {Call(NR_openat, AT_FDCWD, 100, O_RDONLY, 0, 0)}
  ELSE {}

PipeCalls ==
  IF fs.next_fd_ + 1 <= MaxFd /\ Len(fs.entries) < MaxEntries
  THEN {Call(NR_pipe2, FdBuf, 0, 0, 0, 0)} ELSE {}

CloseCalls == {Call(NR_close, fd, 0, 0, 0, 0) : fd \in get_open_fds(fs)}

DupCalls ==
  {Call(NR_dup3, old, new, 0, 0, 0) :
     old \in get_open_fds(fs), new \in {1} \cup get_open_fds(fs)}

FdMenu ==
  ForkCalls \cup ExitCalls({0}) \cup OpenCalls \cup PipeCalls \cup CloseCalls \cup DupCalls

GuestFd == GuestSetup(FdMenu, {8})

NextFd ==
  \/ GuestFd
  \/ sys_openat \/ sys_close \/ sys_dup3 \/ sys_pipe2
  \/ sys_clone \/ sys_exit \/ sys_exit_group

SpecFd == InitGuest /\ [][NextFd]_vars

\* ------------------------------------------------ specs: files and pipes
ReadCalls ==
  {Call(NR_read, fd, FdBuf, n, 0, 0) : fd \in get_open_fds(fs), n \in 1..MaxCount}

WriteCalls ==
  {Call(NR_write, fd, FdBuf, n, 0, 0) :
     fd \in {w \in DOMAIN fs.open_files_ : fs.open_files_[w].offset < MaxFileLen},
     n \in 1..MaxCount}

PipeMenu ==
  ExitCalls({0}) \cup OpenCalls \cup PipeCalls \cup CloseCalls \cup ReadCalls \cup WriteCalls

GuestPipe == GuestSetup(PipeMenu, {8})

NextPipe ==
  \/ GuestPipe \/ GuestStore
  \/ sys_openat \/ sys_close \/ sys_pipe2 \/ sys_read \/ sys_write \/ sys_exit

SpecPipe == InitGuest /\ [][NextPipe]_vars

\* ------------------------------------------------- specs: fork and wait4
WaitCalls == {Call(NR_wait4, -1, a, 0, 0, 0) : a \in {0, STACK_TOP - 1}}

WaitMenu == ForkCalls \cup ExitCalls(0..MaxExitCode) \cup WaitCalls

GuestWait == GuestSetup(WaitMenu, EcallSites)

NextWait == GuestWait \/ sys_clone \/ sys_exit \/ sys_exit_group \/ sys_wait4

SpecWait == InitGuest /\ [][NextWait]_vars

\* --------------------------------- properties: fork and file descriptors
\* C2: when the parent is restored after a fork cycle, the open VFS fds
\* and the Entry behind each are exactly those recorded at the clone,
\* whatever the child opened, closed, duplicated or piped.
C2_FdsRestored ==
  [][ParentRestored => fd_entries(fs') = hist.clone_fds]_vars

\* C4: after a fork cycle whose child exited with code c, the parent's
\* first wait4 returns the child PID and stores (c & 0xff) << 8 at the
\* status address, and each later wait4 before the next fork returns
\* -ECHILD.
C4_WaitOnce ==
  [][(sys_wait4 /\ ~g_fork.in_child /\ hist.cycles >= 1)
       => IF hist.waits = 0
          THEN /\ regs'[REG_A0] = g_fork.child_pid
               /\ regs[REG_A1] # 0
                    => mem'[regs[REG_A1]] = (hist.exit_code % 256) * 256
          ELSE regs'[REG_A0] = -ECHILD]_vars

\* fd is the end of a pipe opened with the given access mode.
PipeEnd(fd, mode) ==
  /\ fd \in DOMAIN fs.open_files_
  /\ EntryOf(fs, fs.open_files_[fd].entry).type = FT_Fifo
  /\ fs.open_files_[fd].flags = mode

\* The bytes held by the Entry behind fd, before and after the step.
PipeContent(fd) == EntryOf(fs, fs.open_files_[fd].entry).content

PipeContentAfter(fd) == EntryOf(fs', fs.open_files_[fd].entry).content

\* C5: a write of n bytes on a pipe's write end returns n and appends the
\* bytes to the shared Entry; a read on the read end returns the bytes at
\* the head, in the order written, and removes them.
C5_PipeDelivers ==
  /\ [][(sys_write /\ PipeEnd(regs[REG_A0], O_WRONLY))
          => /\ regs'[REG_A0] = regs[REG_A2]
             /\ PipeContentAfter(regs[REG_A0])
                  = PipeContent(regs[REG_A0])
                      \o memcpy_out(mem, regs[REG_A1], regs[REG_A2])]_vars
  /\ [][(sys_read /\ PipeEnd(regs[REG_A0], O_RDONLY))
          => LET n == Min(regs[REG_A2], Len(PipeContent(regs[REG_A0]))) IN
             /\ regs'[REG_A0] = n
             /\ memcpy_out(mem', regs[REG_A1], n) = SubSeq(PipeContent(regs[REG_A0]), 1, n)
             /\ PipeContentAfter(regs[REG_A0])
                  = SubSeq(PipeContent(regs[REG_A0]), n + 1,
                           Len(PipeContent(regs[REG_A0])))]_vars

\* ---------------------------------------------- specs: threads and fork
\* clone flags of pthread_create, without and with the tid bookkeeping.
ThreadFlags ==
  {F_CLONE_VM + F_CLONE_THREAD,
   F_CLONE_VM + F_CLONE_THREAD + F_CLONE_SETTLS + F_CLONE_PARENT_SETTID
     + F_CLONE_CHILD_CLEARTID}

\* The stack of a new thread is a fresh mapping below the main stack.
ChildStack == HEAP_START + HEAP_SIZE

ThreadCalls ==
  IF g_next_pid < FIRST_PID + MaxThreadClones
  THEN {Call(NR_clone, fl, ChildStack, STACK_TOP - 1, 1, INTERP_RW_START) : fl \in ThreadFlags}
  ELSE {}

\* A guest that has more than MaxBusy threads only creates further ones.
SchedMenu ==
  ThreadCalls
    \cup (IF g_sched.count <= MaxBusy
          THEN ForkCalls \cup ExitCalls({0})
                 \cup {Call(NR_gettid, 0, 0, 0, 0, 0), Call(NR_sched_yield, 0, 0, 0, 0, 0)}
          ELSE {})

GuestSched == GuestSetup(SchedMenu, {8})

NextSched ==
  \/ GuestSched
  \/ sys_clone \/ sys_exit \/ sys_exit_group \/ sys_gettid \/ sys_sched_yield

SpecSched == InitGuest /\ [][NextSched]_vars

\* -------------------------------------------- properties: threads and fork
\* C3: when the fork child calls exit or exit_group the machine keeps
\* running, in_child becomes false, the pc is the one saved at the clone
\* (just past its ecall) and the registers are those saved at the clone
\* except a0, which holds the child PID assigned at the clone.
C3_ChildExitRestores ==
  [][((sys_exit \/ sys_exit_group) /\ g_fork.in_child)
       => /\ ~m_stopped'
          /\ ~g_fork'.in_child
          /\ pc' = hist.clone_pc
          /\ regs' = [hist.clone_regs EXCEPT ![REG_A0] = g_fork.child_pid]]_vars

\* A clone in thread form.
ThreadClone ==
  /\ sys_clone
  /\ \/ HasFlag(regs[REG_A0], F_CLONE_THREAD)
     \/ HasFlag(regs[REG_A0], F_CLONE_VM) /\ ~HasFlag(regs[REG_A0], F_CLONE_VFORK)

\* add_thread will find a slot: the scheduler is not yet set up, or some
\* slot is inactive.
SlotFree == g_sched.count = 0 \/ \E i \in Slots : ~g_sched.threads[i].active

\* Right after the clone the new thread runs: gettid would report the tid
\* just assigned, a0 is 0 and sp is the child_stack argument.
ChildRuns ==
  /\ current_tid(g_sched') = g_next_pid
  /\ g_next_pid' = g_next_pid + 1
  /\ regs'[REG_A0] = 0
  /\ regs'[REG_SP] = regs[REG_A1]

\* A thread that was parked by its own clone and runs again finds the
\* child's tid in a0, at the instruction after its clone ecall.
ParentSeesTid ==
  \A i \in Slots :
    (g_sched'.current = i /\ g_sched.current # i /\ ~ThreadClone
       /\ hist.pending_clone[i] # 0)
      => /\ regs'[REG_A0] = hist.pending_clone[i]
         /\ regs'[REG_A7] = NR_clone
         /\ pc' \notin EcallSites

\* C10 as stated: every clone in thread form leaves the new thread
\* running (gettid = new tid, a0 = 0, sp = child_stack), and the parent,
\* when next resumed, sees the child's tid as the clone's result.
C10_EveryThreadClone ==
  /\ [][ThreadClone => ChildRuns]_vars
  /\ [][ParentSeesTid]_vars

\* C10 amended: the same, for the clones for which a scheduler slot is free.
C10_ThreadCloneWithSlot ==
  /\ [][(ThreadClone /\ SlotFree)
          => /\ ChildRuns
             /\ hist'.pending_clone[IF g_sched.count = 0 THEN 0 ELSE g_sched.current]
                  = g_next_pid]_vars
  /\ [][ParentSeesTid]_vars

\* The main thread cloned a thread, the child yielded, and the main thread
\* runs again with the child's tid as the result of its clone.
C10_Witness ==
  /\ g_sched.count = 2
  /\ g_sched.current = 0
  /\ g_sched.threads[1].active
  /\ g_sched.threads[1].regs[REG_A7] = NR_sched_yield
  /\ regs[REG_A7] = NR_clone
  /\ regs[REG_A0] = g_sched.threads[1].tid
  /\ regs[REG_A0] = FIRST_PID
  /\ pc \notin EcallSites

\* ------------------------------------ syscalls.hpp: futex and yield points
\* sys_futex, lines 2374-2402: FUTEX_WAIT and FUTEX_WAIT_BITSET.
futex_wait(uaddr, expected) ==
  LET cur == g_sched.current
      parked == [g_sched EXCEPT !.threads[cur].waiting = TRUE,
                                !.threads[cur].futex_addr = uaddr,
                                !.threads[cur].futex_val = expected]
      next == next_runnable(parked, cur)
      sw == switch_to_thread(parked, [regs EXCEPT ![REG_A0] = 0], cpu_pc, next)
  IN /\ InArena(uaddr, 1)
     /\ IF mem[uaddr] # expected
        THEN /\ Return(-EAGAIN)
             /\ UNCHANGED <<mem, g_sched, hist>>
        ELSE IF g_sched.count > 1 /\ next >= 0
        THEN /\ regs' = sw.regs
             /\ pc' = sw.pc
             /\ g_sched' = sw.sched
             /\ hist' = Resumed(hist, next)
             /\ mem' = mem
        ELSE /\ g_sched' = IF g_sched.count > 1
                           THEN [parked EXCEPT !.threads[cur].waiting = FALSE]
                           ELSE g_sched
             /\ mem' = write32(mem, uaddr, 0)
             /\ Return(0)
             /\ hist' = hist

\* sys_futex, lines 2411-2421: FUTEX_WAKE and FUTEX_WAKE_BITSET.
futex_wake(uaddr, max_wake) ==
  LET w == wake(g_sched, uaddr, max_wake) IN
  /\ g_sched' = w.sched
  /\ Return(w.ret)
  /\ UNCHANGED <<mem, hist>>

sys_futex ==
  /\ Dispatch(NR_futex)
  /\ LET uaddr == regs[REG_A0]
         cmd == regs[REG_A1] % FUTEX_CMD_SPAN
     IN IF cmd \in {FUTEX_WAIT, FUTEX_WAIT_BITSET} THEN futex_wait(uaddr, regs[REG_A2])
        ELSE IF cmd \in {FUTEX_WAKE, FUTEX_WAKE_BITSET} THEN futex_wake(uaddr, regs[REG_A2])
        ELSE Return(-ENOSYS) /\ UNCHANGED <<mem, g_sched, hist>>
  /\ UNCHANGED <<m_stopped, mmap_frontier, page_attr, bridgeVars, hostVars, pushed,
                 consumed, fs,
                 g_fork, g_next_pid, g_exec_ctx>>

\* sys_nanosleep: with another runnable thread the call switches to it and
\* sets no result; otherwise the host sleeps and the call returns 0.
sys_nanosleep ==
  /\ Dispatch(NR_nanosleep)
  /\ InArena(regs[REG_A0], 2)
  /\ LET next == IF g_sched.count > 1 THEN next_runnable(g_sched, g_sched.current) ELSE -1
         sw == switch_to_thread(g_sched, regs, cpu_pc, next)
     IN IF next >= 0
        THEN /\ regs' = sw.regs
             /\ pc' = sw.pc
             /\ g_sched' = sw.sched
             /\ hist' = Resumed(hist, next)
        ELSE /\ Return(0)
             /\ UNCHANGED <<g_sched, hist>>
  /\ UNCHANGED <<m_stopped, mem, mmap_frontier, page_attr, bridgeVars, hostVars, pushed,
                 consumed, fs,
                 g_fork, g_next_pid, g_exec_ctx>>

\* sys_clock_gettime: the host's time goes to tp_addr (tv_sec, tv_nsec), the
\* result is 0, and the quantum is charged.
sys_clock_gettime ==
  /\ Dispatch(NR_clock_gettime)
  /\ InArena(regs[REG_A1], 2)
  /\ \E tv_sec \in 0..MaxClock, tv_nsec \in 0..MaxClock :
       mem' = memcpy(mem, regs[REG_A1], <<tv_sec, tv_nsec>>)
  /\ LET mp == maybe_preempt(g_sched, [regs EXCEPT ![REG_A0] = 0], cpu_pc)
     IN /\ regs' = mp.regs
        /\ pc' = mp.pc
        /\ g_sched' = mp.sched
        /\ hist' = IF mp.next >= 0 THEN Resumed(hist, mp.next) ELSE hist
  /\ UNCHANGED <<m_stopped, mmap_frontier, page_attr, bridgeVars, hostVars, pushed,
                 consumed, fs,
                 g_fork, g_next_pid, g_exec_ctx>>

\* ------------------------------------------------ specs: threads and futex
\* The two words the guest's threads synchronise on.
FutexAddrs == {INTERP_RW_START, STACK_TOP - 1}

\* clone flags of a thread whose exit clears and wakes child_tidptr.
WorkerFlags == {F_CLONE_VM + F_CLONE_THREAD + F_CLONE_CHILD_CLEARTID}

WorkerCalls ==
  IF g_next_pid < FIRST_PID + MaxWorkers
  THEN {Call(NR_clone, fl, ChildStack, 0, 0, INTERP_RW_START) : fl \in WorkerFlags}
  ELSE {}

FutexCalls ==
  {Call(NR_futex, a, FUTEX_WAIT, 0, 0, 0) : a \in FutexAddrs}
    \cup {Call(NR_futex, INTERP_RW_START, FUTEX_WAIT_BITSET, MaxClock + 1, 0, 0)}
    \cup {Call(NR_futex, INTERP_RW_START, FUTEX_WAKE + FUTEX_CMD_SPAN, n, 0, 0) :
            n \in 0..MaxWake}
    \cup {Call(NR_futex, STACK_TOP - 1, FUTEX_WAKE_BITSET, 1, 0, 0)}

\* The slots whose quantum is partly used.
Ticking(s) ==
  {i \in Slots : s.threads[i].syscall_budget \notin {0, THREAD_QUANTUM}}

\* clock_gettime is offered while the call switches threads or charges
\* nothing, and to at most MaxTicks threads for MaxTicks charged calls each.
ClockCalls ==
  IF \/ g_sched.count <= 1
     \/ g_sched.threads[g_sched.current].syscall_budget = 0
     \/ /\ g_sched.threads[g_sched.current].syscall_budget > THREAD_QUANTUM - MaxTicks
        /\ Cardinality(Ticking(g_sched) \ {g_sched.current}) < MaxTicks
  THEN {Call(NR_clock_gettime, 0, INTERP_RW_START, 0, 0, 0)} ELSE {}

ThreadsMenu ==
  WorkerCalls \cup FutexCalls \cup ClockCalls
    \cup {Call(NR_nanosleep, EXEC_RW_START, 0, 0, 0, 0),
          Call(NR_sched_yield, 0, 0, 0, 0, 0),
          Call(NR_exit, 0, 0, 0, 0, 0)}

GuestThreads == GuestSetup(ThreadsMenu, {8})

NextThreads ==
  \/ GuestThreads
  \/ sys_clone \/ sys_futex \/ sys_nanosleep \/ sys_sched_yield \/ sys_clock_gettime
  \/ sys_exit

SpecThreads == InitGuest /\ [][NextThreads]_vars

\* ----------------------------------------- properties: threads and futex
\* A futex call whose command is FUTEX_WAKE or FUTEX_WAKE_BITSET.
FutexWake ==
  /\ sys_futex
  /\ regs[REG_A1] % FUTEX_CMD_SPAN \in {FUTEX_WAKE, FUTEX_WAKE_BITSET}

\* The slots the step takes from waiting to runnable.
Woken == {i \in Slots : g_sched.threads[i].waiting /\ ~g_sched'.threads[i].waiting}

\* C11: a futex WAKE(addr, n) takes at most n slots from waiting to
\* runnable; each of them was active and waiting on exactly addr and only
\* its waiting flag changes; every other slot (waiting on another address
\* or not at all) is untouched; the call returns the number of slots woken.
C11_WakeBounded ==
  [][FutexWake
       => /\ Cardinality(Woken) <= regs[REG_A2]
          /\ \A i \in Woken :
               /\ g_sched.threads[i].active
               /\ g_sched.threads[i].futex_addr = regs[REG_A0]
               /\ g_sched'.threads[i] = [g_sched.threads[i] EXCEPT !.waiting = FALSE]
          /\ \A i \in Slots \ Woken : g_sched'.threads[i] = g_sched.threads[i]
          /\ regs'[REG_A0] = Cardinality(Woken)
          /\ g_sched'.current = g_sched.current
          /\ g_sched'.count = g_sched.count]_vars

\* A WAKE(addr, 1) has just returned 1: of two threads that waited on addr
\* the first is runnable and the second still waits.
C11_Witness ==
  /\ regs[REG_A7] = NR_futex
  /\ regs[REG_A1] = FUTEX_WAKE + FUTEX_CMD_SPAN
  /\ regs[REG_A2] = 1
  /\ regs[REG_A0] = 1
  /\ pc \notin EcallSites
  /\ g_sched.current = 2
  /\ g_sched.threads[0].active /\ ~g_sched.threads[0].waiting
  /\ g_sched.threads[0].futex_addr = INTERP_RW_START
  /\ g_sched.threads[0].regs[REG_A7] = NR_futex
  /\ g_sched.threads[1].active /\ g_sched.threads[1].waiting
  /\ g_sched.threads[1].futex_addr = INTERP_RW_START

\* No two active slots have the same tid.
TidsDistinct ==
  \A i, j \in Slots :
    (i # j /\ g_sched.threads[i].active /\ g_sched.threads[j].active)
      => g_sched.threads[i].tid # g_sched.threads[j].tid

\* The slot named by current is active.
CurrentActive == g_sched.current \in Slots /\ g_sched.threads[g_sched.current].active

\* A slot that is parked before and after a step keeps its saved registers
\* and pc.
ParkedKept ==
  \A i \in Slots :
    (i # g_sched.current /\ i # g_sched'.current
       /\ g_sched.threads[i].active /\ g_sched'.threads[i].active)
      => /\ g_sched'.threads[i].regs = g_sched.threads[i].regs
         /\ g_sched'.threads[i].pc = g_sched.threads[i].pc

\* A thread that is switched out leaves in its slot the pc after its
\* syscall and the registers it had, a0 apart (the syscall's result).
SwitchedOut ==
  \A i \in Slots :
    (g_sched.current = i /\ g_sched'.current # i /\ g_sched'.threads[i].active)
      => /\ g_sched'.threads[i].pc = cpu_pc
         /\ \A r \in Regs \ {REG_A0} : g_sched'.threads[i].regs[r] = regs[r]

\* A thread that is switched in gets the registers and pc of its slot.
SwitchedIn ==
  (g_sched'.current # g_sched.current /\ ~ThreadClone)
    => /\ g_sched.threads[g_sched'.current].active
       /\ regs' = g_sched.threads[g_sched'.current].regs
       /\ pc' = g_sched.threads[g_sched'.current].pc

\* C12 as stated: in every state in which the machine runs, the current
\* slot is active, no two active slots share a tid, and the saved
\* registers and pc of the other active slots are those of their last
\* switch-out.
C12_EveryState ==
  /\ [](~m_stopped => CurrentActive /\ TidsDistinct)
  /\ [][ParkedKept /\ SwitchedOut /\ SwitchedIn]_vars

\* C12 amended: the same, in the states in which the scheduler has been
\* set up by the first clone in thread form (count > 0).
C12_OnceInitialised ==
  /\ []((~m_stopped /\ g_sched.count > 0) => CurrentActive /\ TidsDistinct)
  /\ [][ParkedKept /\ SwitchedOut /\ SwitchedIn]_vars

\* Three threads: the running one was switched in, and two parked ones hold
\* the registers of the different calls at which they were switched out.
C12_Witness ==
  /\ ~m_stopped
  /\ g_sched.count = 3
  /\ g_sched.current = 1
  /\ \A i \in 0..2 : g_sched.threads[i].active
  /\ g_sched.threads[0].waiting
  /\ g_sched.threads[0].regs[REG_A7] = NR_futex
  /\ g_sched.threads[2].regs[REG_A7] = NR_nanosleep
  /\ g_sched.threads[2].pc \notin EcallSites
  /\ regs[REG_A7] = NR_clone
  /\ regs[REG_A0] = FIRST_PID + 1
  /\ pc \notin EcallSites

\* ------------------------------------------------- syscalls.hpp: sys_ppoll
\* A struct pollfd takes POLLFD_CELLS cells: fd, events, revents.  A
\* timespec takes two: tv_sec, tv_nsec.
\* A zero_timeout that is never true.
zero_timeout_never(m, timeout_addr) == FALSE

\* sys_ppoll, lines 2130-2136: the timeout is present and reads 0 s, 0 ns.
zero_timeout(m, timeout_addr) ==
  timeout_addr # 0 /\ m[timeout_addr] = 0 /\ m[timeout_addr + 1] = 0

\* sys_ppoll, lines 2149-2150.
has_data == IF stdin_buffer # <<>> THEN 1 ELSE IF stdin_eof THEN -1 ELSE 0

\* sys_ppoll, lines 2148-2169: the revents of one entry.
poll_revents(fd, events) ==
  IF fd = 0 /\ HasFlag(events, POLLIN)
  THEN (IF has_data = 1 THEN POLLIN ELSE IF has_data = -1 THEN POLLHUP ELSE 0)
  ELSE IF fd = 1 \/ fd = 2 THEN (IF HasFlag(events, POLLOUT) THEN POLLOUT ELSE 0)
  ELSE IF fd >= 0 THEN (IF HasFlag(events, POLLIN) THEN POLLIN ELSE 0)
  ELSE 0

sys_ppoll ==
  /\ Dispatch(NR_ppoll)
  /\ stdin_mutex = "free"
  /\ LET fds_addr == regs[REG_A0]
         nfds == Min(regs[REG_A1], POLL_NFDS_CAP)
         timeout_addr == regs[REG_A2]
         entry_addr(i) == fds_addr + i * POLLFD_CELLS
         revents(i) == poll_revents(mem[entry_addr(i)], mem[entry_addr(i) + 1])
         ready == Cardinality({i \in 0..(nfds - 1) : revents(i) # 0})
         polled == [a \in Addr |->
                      IF \E i \in 0..(nfds - 1) : a = entry_addr(i) + 2
                      THEN revents((a - 2 - fds_addr) \div POLLFD_CELLS)
                      ELSE mem[a]]
     IN IF nfds = 0
        THEN /\ Return(0)
             /\ UNCHANGED <<mem, waiting_for_stdin, m_stopped>>
        ELSE /\ timeout_addr # 0 => InArena(timeout_addr, 2)
             /\ InArena(fds_addr, nfds * POLLFD_CELLS)
             /\ mem' = polled
             /\ IF ready > 0
                THEN Return(ready) /\ UNCHANGED <<waiting_for_stdin, m_stopped>>
                ELSE IF zero_timeout(mem, timeout_addr)
                THEN Return(0) /\ UNCHANGED <<waiting_for_stdin, m_stopped>>
                ELSE /\ waiting_for_stdin' = TRUE
                     /\ pc' = cpu_pc - 4
                     /\ m_stopped' = TRUE
                     /\ regs' = regs
  /\ UNCHANGED <<mmap_frontier, page_attr, stdin_buffer, stdin_eof, running, stdin_mutex,
                 hostVars,
                 ghostVars, fs, procVars>>

\* ----------------------------------------------------------- specs: polling
\* Where the guest keeps its one-entry pollfd array and its timespec.
PollFdsAddr == EXEC_RW_START

PollTimeoutAddr == INTERP_RW_START

PollFds == {-1, 0, 1, FIRST_FD}

PollEvents == {0, POLLIN, POLLOUT}

\* The guest fills in the pollfd entry or the timespec.
GuestPollArgs ==
  /\ GuestRunning
  /\ pc \notin EcallSites
  /\ \E m1 \in {memcpy(mem, PollFdsAddr, <<fd, events, 0>>) :
                   fd \in PollFds, events \in PollEvents}
                 \cup {memcpy(mem, PollTimeoutAddr, <<tv_sec, tv_nsec>>) :
                         tv_sec \in 0..MaxStore, tv_nsec \in 0..MaxStore} :
       mem # m1 /\ mem' = m1
  /\ UNCHANGED <<regs, pc, m_stopped, mmap_frontier, page_attr, bridgeVars, hostVars,
                 ghostVars,
                 fs, procVars>>

PollMenu ==
  {Call(NR_ppoll, PollFdsAddr, n, t, 0, 0) : n \in 0..MaxPollFds, t \in {0, PollTimeoutAddr}}
    \cup {Call(NR_read, 0, PollFdsAddr + 2, 1, 0, 0)}

GuestPoll == GuestSetup(PollMenu, {8})

NextPoll ==
  \/ GuestPoll \/ GuestPollArgs \/ sys_ppoll \/ sys_read
  \/ ExecLoopTop \/ ExecSimEnter \/ ExecSimReturn \/ ExecAfterSim \/ ExecClearWaiting
  \/ ExecCvLock \/ ExecCvPred \/ ExecCvBlock \/ ExecSpuriousWake \/ ExecCvDone
  \/ NativeSendInput \/ PushInsert \/ PushNotify

SpecPoll == InitGuest /\ [][NextPoll]_vars

\* ------------------------------------------------------- properties: polling
\* C13: a ppoll whose timeout is present and reads zero returns the number
\* of entries it marked ready (0 when none is), whatever the fd list and
\* the stdin queue hold; waiting_for_stdin is not set, the pc moves on past
\* the ecall and the machine is not stopped.
C13_ZeroTimeoutReturns ==
  [][(sys_ppoll /\ regs[REG_A2] # 0
         /\ mem[regs[REG_A2]] = 0 /\ mem[regs[REG_A2] + 1] = 0)
       => /\ regs'[REG_A0] =
               Cardinality({i \in 0..(regs[REG_A1] - 1) :
                              mem'[regs[REG_A0] + i * POLLFD_CELLS + 2] # 0})
          /\ waiting_for_stdin' = waiting_for_stdin
          /\ ~waiting_for_stdin'
          /\ pc' = cpu_pc
          /\ ~m_stopped']_vars

\* A zero-timeout ppoll on fd 0 for POLLIN with nothing queued has returned
\* 0 and the guest runs on.
C13_Witness ==
  /\ regs[REG_A7] = NR_ppoll
  /\ regs[REG_A1] = 1
  /\ regs[REG_A2] = PollTimeoutAddr
  /\ mem[PollTimeoutAddr] = 0
  /\ mem[PollTimeoutAddr + 1] = 0
  /\ mem[PollFdsAddr] = 0
  /\ mem[PollFdsAddr + 1] = POLLIN
  /\ mem[PollFdsAddr + 2] = 0
  /\ stdin_buffer = <<>>
  /\ regs[REG_A0] = 0
  /\ pc \notin EcallSites
  /\ ~waiting_for_stdin
  /\ ~m_stopped
  /\ execPc = "simulating"

\* ------------------------------------- vfs.hpp: dup, pread, pwrite, link
\* VirtualFS::dup: a new handle on the same Entry with the offset copied.
vfs_dup(f, oldfd) ==
  IF oldfd \in DOMAIN f.open_files_
  THEN [fs |-> [f EXCEPT !.open_files_ = With(@, f.next_fd_, f.open_files_[oldfd]),
                         !.next_fd_ = @ + 1],
        ret |-> f.next_fd_]
  ELSE IF oldfd \in DOMAIN f.open_dirs_
  THEN [fs |-> [f EXCEPT !.open_dirs_ = With(@, f.next_fd_, f.open_dirs_[oldfd]),
                         !.next_fd_ = @ + 1],
        ret |-> f.next_fd_]
  ELSE [fs |-> f, ret |-> -EBADF]

\* A pread that ignores its offset argument.
vfs_pread_from_start(f, fd, count, offset) ==
  IF fd \notin DOMAIN f.open_files_ THEN [ret |-> -EBADF, data |-> <<>>]
  ELSE LET content == EntryOf(f, f.open_files_[fd].entry).content
           to_read == Min(count, Len(content))
       IN IF ~is_file(f, f.open_files_[fd].entry) THEN [ret |-> -EISDIR, data |-> <<>>]
          ELSE [ret |-> to_read, data |-> SubSeq(content, 1, to_read)]

\* VirtualFS::pread: the handle's offset is neither used nor moved.
vfs_pread(f, fd, count, offset) ==
  IF fd \notin DOMAIN f.open_files_ THEN [ret |-> -EBADF, data |-> <<>>]
  ELSE LET content == EntryOf(f, f.open_files_[fd].entry).content
           to_read == Min(count, Len(content) - offset)
       IN IF ~is_file(f, f.open_files_[fd].entry) THEN [ret |-> -EISDIR, data |-> <<>>]
          ELSE IF offset >= Len(content) THEN [ret |-> 0, data |-> <<>>]
          ELSE [ret |-> to_read, data |-> SubSeq(content, offset + 1, offset + to_read)]

\* VirtualFS::pwrite
vfs_pwrite(f, fd, data, offset) ==
  IF fd \notin DOMAIN f.open_files_ THEN [fs |-> f, ret |-> -EBADF]
  ELSE LET e == f.open_files_[fd].entry
           content == EntryOf(f, e).content
           count == Len(data)
           end_pos == offset + count
           grown == IF end_pos > Len(content)
                    THEN [i \in 1..end_pos |-> IF i <= Len(content) THEN content[i] ELSE 0]
                    ELSE content
           written == [i \in 1..Len(grown) |->
                         IF i > offset /\ i <= end_pos THEN data[i - offset] ELSE grown[i]]
       IN IF ~is_file(f, e) THEN [fs |-> f, ret |-> -EISDIR]
          ELSE [fs |-> [f EXCEPT !.entries[e + 1].content = written,
                                 !.entries[e + 1].size =
                                    IF end_pos > Len(content) THEN end_pos ELSE @],
                ret |-> count]

\* VirtualFS::link: the same Entry under a second name.
vfs_link(f, oldpath, newpath) ==
  LET target == resolve(f, oldpath) IN
  IF target = NoEntry THEN [fs |-> f, ret |-> -ENOENT]
  ELSE IF is_dir(f, target) THEN [fs |-> f, ret |-> -EMLINK]
  ELSE IF resolve(f, newpath) # NoEntry THEN [fs |-> f, ret |-> -EEXIST]
  ELSE [fs |-> [f EXCEPT !.children = With(@, newpath, target)], ret |-> 0]

\* ------------------------------------ syscalls.hpp: dup, pread, pwrite, link
sys_dup ==
  /\ Dispatch(NR_dup)
  /\ LET r == vfs_dup(fs, regs[REG_A0]) IN Return(r.ret) /\ fs' = r.fs
  /\ UNCHANGED <<m_stopped, mem, mmap_frontier, page_attr, bridgeVars, hostVars,
                 ghostVars, procVars>>

sys_pread64 ==
  /\ Dispatch(NR_pread64)
  /\ LET buf_addr == regs[REG_A1]
         count == regs[REG_A2]
         r == vfs_pread(fs, regs[REG_A0], count, regs[REG_A3])
     IN /\ InArena(buf_addr, count)
        /\ mem' = IF r.ret > 0 THEN memcpy(mem, buf_addr, r.data) ELSE mem
        /\ Return(r.ret)
  /\ UNCHANGED <<m_stopped, mmap_frontier, page_attr, bridgeVars, hostVars, ghostVars,
                 fs, procVars>>

sys_pwrite64 ==
  /\ Dispatch(NR_pwrite64)
  /\ LET buf_addr == regs[REG_A1]
         count == regs[REG_A2]
         r == vfs_pwrite(fs, regs[REG_A0], memcpy_out(mem, buf_addr, count), regs[REG_A3])
     IN /\ InArena(buf_addr, count)
        /\ fs' = r.fs
        /\ Return(r.ret)
  /\ UNCHANGED <<m_stopped, mem, mmap_frontier, page_attr, bridgeVars, hostVars,
                 ghostVars, procVars>>

sys_linkat ==
  /\ Dispatch(NR_linkat)
  /\ LET oldpath_addr == regs[REG_A1]
         newpath_addr == regs[REG_A3]
         r == vfs_link(fs, PathAt[oldpath_addr], PathAt[newpath_addr])
     IN IF regs[REG_A0] # AT_FDCWD \/ regs[REG_A2] # AT_FDCWD
        THEN Return(-ENOTSUP) /\ fs' = fs
        ELSE IF oldpath_addr \notin DOMAIN PathAt \/ newpath_addr \notin DOMAIN PathAt
        THEN Return(-EINVAL) /\ fs' = fs
        ELSE Return(r.ret) /\ fs' = r.fs
  /\ UNCHANGED <<m_stopped, mem, mmap_frontier, page_attr, bridgeVars, hostVars,
                 ghostVars, procVars>>

\* ------------------------------------------------- specs: regular files
\* The guest puts a byte into the first cell of its I/O buffer.
GuestFill ==
  /\ GuestRunning
  /\ pc \notin EcallSites
  /\ \E v \in Bytes : mem[FdBuf] # v /\ mem' = [mem EXCEPT ![FdBuf] = v]
  /\ UNCHANGED <<regs, pc, m_stopped, mmap_frontier, page_attr, bridgeVars, hostVars,
                 ghostVars,
                 fs, procVars>>

FileOpenCalls ==
  IF fs.next_fd_ <= MaxFd
  THEN {Call(NR_openat, AT_FDCWD, p, O_RDWR, 0, 0) : p \in {100, 101}}
  ELSE {}

FileDupCalls ==
  (IF fs.next_fd_ <= MaxFd
   THEN {Call(NR_dup, fd, 0, 0, 0, 0) : fd \in get_open_fds(fs)} ELSE {})
    \cup {Call(NR_dup3, old, new, 0, 0, 0) :
            old \in get_open_fds(fs), new \in FIRST_FD..MaxFd}

LinkCalls ==
  IF "b" \notin DOMAIN fs.children
  THEN {Call(NR_linkat, AT_FDCWD, 100, AT_FDCWD, 101, 0)} ELSE {}

FileReadCalls ==
  {Call(NR_read, fd, FdBuf, n, 0, 0) : fd \in get_open_fds(fs), n \in 1..MaxCount}
    \cup {Call(NR_pread64, fd, FdBuf, 1, off, 0) :
            fd \in get_open_fds(fs), off \in 0..(MaxFileLen - 1)}

FileWriteCalls ==
  {Call(NR_write, fd, FdBuf, 1, 0, 0) :
     fd \in {w \in DOMAIN fs.open_files_ : fs.open_files_[w].offset < MaxFileLen}}
    \cup {Call(NR_pwrite64, fd, FdBuf, 1, off, 0) :
            fd \in get_open_fds(fs), off \in 0..(MaxFileLen - 1)}

FileMenu ==
  FileOpenCalls \cup CloseCalls \cup FileDupCalls \cup LinkCalls
    \cup FileReadCalls \cup FileWriteCalls

GuestFile == GuestSetup(FileMenu, {8})

NextFile ==
  \/ GuestFile \/ GuestFill
  \/ sys_openat \/ sys_close \/ sys_dup \/ sys_dup3 \/ sys_linkat
  \/ sys_read \/ sys_write \/ sys_pread64 \/ sys_pwrite64

SpecFile == InitGuest /\ [][NextFile]_vars

\* ------------------------------------------- properties: regular files
\* fd is an open handle on a regular file.
RegularFd(fd) == fd \in DOMAIN fs.open_files_ /\ is_file(fs, fs.open_files_[fd].entry)

\* The bytes of the Entry behind fd before the step, and of the same Entry
\* after it.
ContentOf(fd) == EntryOf(fs, fs.open_files_[fd].entry).content

ContentAfter(fd) == EntryOf(fs', fs.open_files_[fd].entry).content

\* Every handle but the one on fd is the same after the step.
OtherHandlesKept(fd) ==
  /\ \A x \in (DOMAIN fs.open_files_) \ {fd} :
       x \in DOMAIN fs'.open_files_ /\ fs'.open_files_[x] = fs.open_files_[x]
  /\ \A x \in (DOMAIN fs.open_dirs_) \ {fd} :
       x \in DOMAIN fs'.open_dirs_ /\ fs'.open_dirs_[x] = fs.open_dirs_[x]

C15_WritesVisible ==
  /\ [][(sys_write /\ RegularFd(regs[REG_A0]))
          => LET off == fs.open_files_[regs[REG_A0]].offset
                 n == regs[REG_A2]
             IN /\ regs'[REG_A0] = n
                /\ SubSeq(ContentAfter(regs[REG_A0]), off + 1, off + n)
                     = memcpy_out(mem, regs[REG_A1], n)
                /\ \A i \in 1..Len(ContentOf(regs[REG_A0])) :
                     (i <= off \/ i > off + n)
                       => ContentAfter(regs[REG_A0])[i] = ContentOf(regs[REG_A0])[i]]_vars
  /\ [][(sys_pwrite64 /\ RegularFd(regs[REG_A0]))
          => LET off == regs[REG_A3]
                 n == regs[REG_A2]
             IN /\ regs'[REG_A0] = n
                /\ SubSeq(ContentAfter(regs[REG_A0]), off + 1, off + n)
                     = memcpy_out(mem, regs[REG_A1], n)
                /\ \A i \in 1..Len(ContentOf(regs[REG_A0])) :
                     (i <= off \/ i > off + n)
                       => ContentAfter(regs[REG_A0])[i] = ContentOf(regs[REG_A0])[i]]_vars
  /\ [][\A e \in 0..(Len(fs.entries) - 1) :
          EntryOf(fs', e).content # EntryOf(fs, e).content
            => /\ sys_write \/ sys_pwrite64
               /\ get_entry(fs, regs[REG_A0]) = e]_vars
  /\ [][(sys_read /\ RegularFd(regs[REG_A0])
           /\ fs.open_files_[regs[REG_A0]].offset <= Len(ContentOf(regs[REG_A0])))
          => LET off == fs.open_files_[regs[REG_A0]].offset
                 n == Min(regs[REG_A2], Len(ContentOf(regs[REG_A0])) - off)
             IN /\ regs'[REG_A0] = n
                /\ memcpy_out(mem', regs[REG_A1], n)
                     = SubSeq(ContentOf(regs[REG_A0]), off + 1, off + n)]_vars
  /\ [][(sys_pread64 /\ RegularFd(regs[REG_A0]))
          => LET off == regs[REG_A3]
                 n == Min(regs[REG_A2], Max(Len(ContentOf(regs[REG_A0])) - off, 0))
             IN /\ regs'[REG_A0] = n
                /\ memcpy_out(mem', regs[REG_A1], n)
                     = SubSeq(ContentOf(regs[REG_A0]), off + 1, off + n)]_vars

\* A byte written over the file's second byte has been read back by a pread
\* at offset 1 through a handle opened on the hard link "b".
C15_Witness ==
  /\ "b" \in DOMAIN fs.children
  /\ fs.children["b"] = fs.children["a"]
  /\ FIRST_FD \in DOMAIN fs.open_files_
  /\ fs.next_fd_ = FIRST_FD + 1
  /\ EntryOf(fs, fs.children["a"]).content = <<1, 1>>
  /\ regs[REG_A7] = NR_pread64
  /\ regs[REG_A3] = 1
  /\ regs[REG_A0] = 1
  /\ pc \notin EcallSites
  /\ mem[FdBuf] = 1

\* The lowest fd from FIRST_FD up that is not open.
LowestFree(f) ==
  CHOOSE n \in FIRST_FD..(MaxFd + 2) :
    /\ n \notin get_open_fds(f)
    /\ \A k \in FIRST_FD..(n - 1) : k \in get_open_fds(f)

\* C16: a successful open of a regular file returns the lowest fd >= 3
\* that is not open in the fd table.
C16_LowestFd ==
  [][(sys_openat /\ ~HasFlag(regs[REG_A2], O_DIRECTORY) /\ regs'[REG_A0] >= 0)
       => regs'[REG_A0] = LowestFree(fs)]_vars

\* ------------------------------------------- syscalls.hpp: execve and brk
\* Addresses count cells of one page each, so the page round-up of the
\* break base is exact. A file's bytes stand for its ELF headers: the four
\* two-byte files are RISC-V images, shorter files are not ELF, and <<2>> is
\* a script whose first line names "a".
ENOEXEC == 8
ENOMEM == 12
EFAULT == 14
NR_brk == 214
NR_execve == 221
ET_EXEC == 2
ET_DYN == 3
EXEC_BASE == 1
BRK_MAX == 2
ARENA_SIZE == 16
STACK_RESERVE == 1
STACK_GAP == 1
ARGV_CAP == 256
MaxExecFds == 6

Images ==
  (<<1, 2>> :> [type |-> ET_DYN, lo |-> 0, hi |-> 1, rw_lo |-> 0, rw_hi |-> 1,
                is_dynamic |-> TRUE, interpreter |-> "ld", entry_point |-> EntryPc])
  @@ (<<2, 1>> :> [type |-> ET_DYN, lo |-> 0, hi |-> 2, rw_lo |-> 1, rw_hi |-> 2,
                   is_dynamic |-> TRUE, interpreter |-> "ld", entry_point |-> EntryPc])
  @@ (<<2, 2>> :> [type |-> ET_EXEC, lo |-> 1, hi |-> 3, rw_lo |-> 1, rw_hi |-> 3,
                   is_dynamic |-> FALSE, interpreter |-> "", entry_point |-> EntryPc])
  @@ (<<1, 1>> :> [type |-> ET_DYN, lo |-> 0, hi |-> 1, rw_lo |-> 0, rw_hi |-> 1,
                   is_dynamic |-> FALSE, interpreter |-> "", entry_point |-> EntryPc])

\* The e_ident and e_machine test of sys_execve.
is_riscv_elf(data) == data \in DOMAIN Images

parse_elf(data) == Images[data]

get_load_range(data) == <<Images[data].lo, Images[data].hi>>

get_writable_range(data) == <<Images[data].rw_lo, Images[data].rw_hi>>

\* The interpreter a "#!" first line names, "" for any other file.
shebang(data) == IF data = <<2>> THEN "a" ELSE ""

\* resolve_path on a tree without symlinks: the path if it exists, else "".
resolve_path(f, path) == IF resolve(f, path) = NoEntry THEN "" ELSE path

\* read_vfs_file: open, read to the end, close. The fd number stays used.
read_vfs_file(f, path) ==
  LET o == vfs_open(f, path, O_RDONLY)
  IN IF o.ret < 0 THEN [fs |-> o.fs, data |-> <<>>]
     ELSE [fs |-> vfs_close(o.fs, o.ret),
           data |-> EntryOf(o.fs, get_entry(o.fs, o.ret)).content]

\* The argv pointers read from argv_addr up to the first null; a read past
\* the arena throws.
RECURSIVE read_argv(_, _, _)
read_argv(m, addr, i) ==
  IF i >= ARGV_CAP THEN i
  ELSE IF addr + i \notin Addr THEN -1
  ELSE IF m[addr + i] = 0 THEN i
  ELSE read_argv(m, addr, i + 1)

\* load_elf_segments: the cells of [lo, hi) hold the image's initial data.
load_elf_segments(m, lo, hi) == [a \in Addr |-> IF a >= lo /\ a < hi THEN 0 ELSE m[a]]

\* setup_dynamic_stack: the frame below stack_top, argc at the returned sp.
setup_dynamic_stack(m, argc, stack_top) ==
  [sp |-> stack_top - 1,
   mem |-> IF stack_top - 1 \in Addr THEN [m EXCEPT ![stack_top - 1] = argc] ELSE m]

\* The page round-up (x + 4095) & ~4095 on addresses counted in pages.
page_up(x) == x

\* A failed execve: the VFS keeps the fd numbers the attempt consumed.
ExecFail(ret, f, ctx, m, fr, pa) ==
  [ok |-> FALSE, ret |-> ret, fs |-> f, ctx |-> ctx, mem |-> m, frontier |-> fr,
   attrs |-> pa, sp |-> 0, entry |-> 0]

\* sys_execve, lines 987-1040: the break is reset above the loaded images,
\* the stack is relocated when the new image reaches it, and the auxiliary
\* vector is rebuilt on the new stack.
execve_stack(ctx, ctx2, f, m2, fr, pa2, new_binary, argc, exec_info, load_end, max_end) ==
  LET new_brk_base == page_up(max_end)
      relocate == ctx.original_stack_top < load_end + STACK_RESERVE
      new_stack_top == IF relocate THEN ctx.interp_base - STACK_GAP
                       ELSE ctx.original_stack_top
      ctx3 == [ctx2 EXCEPT !.exec_binary = new_binary,
                           !.brk_base = new_brk_base,
                           !.brk_current = new_brk_base,
                           !.brk_overridden = TRUE,
                           !.original_stack_top = new_stack_top]
      st == setup_dynamic_stack(m2, argc, new_stack_top)
      rw == PageAttributes(TRUE, TRUE, FALSE)
      pa3 == set_page_attr(pa2, new_brk_base, BRK_MAX, rw)
      pa4 == IF relocate
             THEN set_page_attr(pa3, new_stack_top - STACK_RESERVE, STACK_RESERVE, rw)
             ELSE pa3
  IN [ok |-> TRUE, ret |-> 0, fs |-> f, ctx |-> ctx3, mem |-> st.mem,
      frontier |-> Max(fr, new_brk_base + BRK_MAX), attrs |-> pa4,
      sp |-> st.sp,
      entry |-> IF exec_info.is_dynamic THEN ctx3.interp_entry
                ELSE exec_info.entry_point]

\* sys_execve, lines 946-985: a dynamic image has its interpreter read from
\* the VFS and loaded again at interp_base; ir is the result of that read.
execve_interp(ctx, ctx1, m1, fr, pa1, new_binary, argc, exec_info, load_end, reload, ir) ==
  LET irange == get_load_range(ir.data)
      iwr == get_writable_range(ir.data)
      m2 == IF reload
            THEN load_elf_segments(m1, ctx.interp_base,
                                   ctx.interp_base + irange[2] - irange[1])
            ELSE m1
      ctx2 == IF reload
              THEN [ctx1 EXCEPT !.interp_rw_start = ctx.interp_base + iwr[1],
                                !.interp_rw_end = ctx.interp_base + iwr[2],
                                !.interp_binary = ir.data,
                                !.interp_entry = parse_elf(ir.data).entry_point]
              ELSE ctx1
      new_interp == IF reload THEN ir.data ELSE ctx.interp_binary
      orange == get_load_range(new_interp)
      interp_end2 == ctx.interp_base + (orange[2] - orange[1])
      max_end == IF exec_info.is_dynamic THEN Max(load_end, interp_end2) ELSE load_end
      oldi == get_load_range(ctx.interp_binary)
      pa2 == IF reload
             THEN set_page_attr(pa1, ctx.interp_base, oldi[2] - oldi[1],
                                PageAttributes(TRUE, TRUE, FALSE))
             ELSE pa1
  IN IF reload /\ ir.data = <<>> THEN ExecFail(-ENOENT, ir.fs, ctx1, m1, fr, pa1)
     ELSE IF reload /\ ~is_riscv_elf(ir.data)
          THEN ExecFail(-ENOEXEC, ir.fs, ctx1, m1, fr, pa2)
     ELSE execve_stack(ctx, ctx2, ir.fs, m2, fr, pa2, new_binary, argc, exec_info,
                       load_end, max_end)

\* sys_execve, lines 893-944: the parsed image is placed, PIE images at
\* EXEC_BASE and fixed images at their link addresses.
execve_load(ctx, f, m, fr, pa, new_binary, argc, exec_info, range, wr) ==
  LET load_end == EXEC_BASE + range[2] - range[1]
      pie == exec_info.type = ET_DYN
      m1 == IF pie THEN load_elf_segments(m, EXEC_BASE, load_end)
            ELSE load_elf_segments(m, range[1], range[2])
      ctx1 == IF pie
              THEN [ctx EXCEPT !.exec_base = EXEC_BASE,
                               !.exec_rw_start = (EXEC_BASE - range[1]) + wr[1],
                               !.exec_rw_end = (EXEC_BASE - range[1]) + wr[2]]
              ELSE [ctx EXCEPT !.exec_rw_start = wr[1], !.exec_rw_end = wr[2]]
      reload == exec_info.is_dynamic /\ exec_info.interpreter # ""
      rw == PageAttributes(TRUE, TRUE, FALSE)
      old == get_load_range(ctx.exec_binary)
      pa1 == set_page_attr(set_page_attr(pa, EXEC_BASE, load_end - EXEC_BASE, rw),
                           ctx.exec_base, old[2], rw)
  IN IF load_end >= ARENA_SIZE THEN ExecFail(-ENOMEM, f, ctx, m, fr, pa)
     ELSE execve_interp(ctx, ctx1, m1, fr, pa1, new_binary, argc, exec_info,
                        load_end, reload,
                        IF reload
                        THEN read_vfs_file(f, resolve_path(f, exec_info.interpreter))
                        ELSE [fs |-> f, data |-> <<>>])

\* The "loading a new binary" branch of sys_execve.
execve_new(ctx, f, m, fr, pa, new_binary, argc) ==
  execve_load(ctx, f, m, fr, pa, new_binary, argc, parse_elf(new_binary),
              get_load_range(new_binary), get_writable_range(new_binary))

\* sys_execve, lines 877-890 and 1056-1066: bin is the file that is executed;
\* the bytes of the running binary, or bytes that are no RISC-V image, take
\* the restart path.
execve_image(ctx, m, fr, pa, argc, bin) ==
  LET st == setup_dynamic_stack(m, argc, ctx.original_stack_top)
  IN IF is_riscv_elf(bin.data) /\ bin.data # ctx.exec_binary
     THEN execve_new(ctx, bin.fs, m, fr, pa, bin.data, argc)
     ELSE [ok |-> TRUE, ret |-> 0, fs |-> bin.fs, ctx |-> ctx, mem |-> st.mem,
           frontier |-> fr, attrs |-> pa, sp |-> st.sp, entry |-> ctx.interp_entry]

\* sys_execve, lines 819-875: hdr is the read of the resolved file; a "#!"
\* line names the interpreter that is executed in its place.
execve_file(ctx, m, fr, pa, resolved, n, hdr) ==
  LET script == shebang(hdr.data) # ""
      argc == (IF n = 0 THEN 1 ELSE n) + (IF script THEN 1 ELSE 0)
      resolved2 == IF script THEN resolve_path(hdr.fs, shebang(hdr.data)) ELSE resolved
  IN IF resolved2 = "" THEN ExecFail(-ENOENT, hdr.fs, ctx, m, fr, pa)
     ELSE execve_image(ctx, m, fr, pa, argc, read_vfs_file(hdr.fs, resolved2))

\* sys_execve, lines 779-817: the guards on the exec context, the path and
\* the argv array; n is the argument count read from guest memory.
execve_args(ctx, f, m, fr, pa, path_addr, resolved, n) ==
  IF ~ctx.dynamic \/ ctx.exec_binary = <<>> THEN ExecFail(-ENOSYS, f, ctx, m, fr, pa)
  ELSE IF path_addr \notin DOMAIN PathAt THEN ExecFail(-EFAULT, f, ctx, m, fr, pa)
  ELSE IF resolved = "" THEN ExecFail(-ENOENT, f, ctx, m, fr, pa)
  ELSE IF n < 0 THEN ExecFail(-EFAULT, f, ctx, m, fr, pa)
  ELSE execve_file(ctx, m, fr, pa, resolved, n, read_vfs_file(f, resolved))

\* sys_execve on the path named at path_addr with the argv at argv_addr.
execve(ctx, f, m, fr, pa, path_addr, argv_addr) ==
  execve_args(ctx, f, m, fr, pa, path_addr, resolve_path(f, PathAt[path_addr]),
              read_argv(m, argv_addr, 0))

ExecveOutcome ==
  execve(g_exec_ctx, fs, mem, mmap_frontier, page_attr, regs[REG_A0], regs[REG_A1])

\* The machine after sys_execve produced outcome r: a successful execve
\* clears the registers and jumps to the entry point, a failed one returns.
execve_commit(r) ==
  /\ IF r.ok
     THEN /\ regs' = [ZeroRegs EXCEPT ![REG_SP] = r.sp]
          /\ pc' = r.entry
     ELSE Return(r.ret)
  /\ fs' = r.fs
  /\ g_exec_ctx' = r.ctx
  /\ mem' = r.mem
  /\ mmap_frontier' = r.frontier
  /\ page_attr' = r.attrs

sys_execve ==
  /\ Dispatch(NR_execve)
  /\ execve_commit(ExecveOutcome)
  /\ UNCHANGED <<m_stopped, bridgeVars, hostVars, ghostVars, g_fork, g_next_pid, g_sched>>

\* A brk that clamps only from above.
brk_unclamped_below(ctx, new_end) ==
  LET clamped == IF new_end = 0 THEN ctx.brk_current
                 ELSE IF new_end > ctx.brk_base + BRK_MAX THEN ctx.brk_base + BRK_MAX
                 ELSE new_end
  IN IF ~ctx.brk_overridden
     THEN [ctx |-> ctx, ret |-> new_end]
     ELSE [ctx |-> [ctx EXCEPT !.brk_current = clamped], ret |-> clamped]

\* sys_brk: before any execve the break is clamped against the heap the
\* loader set up and the exec context is not written; afterwards it moves
\* brk_current inside [brk_base, brk_base + BRK_MAX].
brk(ctx, new_end) ==
  LET clamped == IF new_end = 0 \/ new_end < ctx.brk_base THEN ctx.brk_current
                 ELSE IF new_end > ctx.brk_base + BRK_MAX THEN ctx.brk_base + BRK_MAX
                 ELSE new_end
      heap_addr == ctx.heap_start
  IN IF ~ctx.brk_overridden
     THEN [ctx |-> ctx,
           ret |-> IF new_end > heap_addr + BRK_MAX THEN heap_addr + BRK_MAX
                   ELSE IF new_end < heap_addr THEN heap_addr
                   ELSE new_end]
     ELSE [ctx |-> [ctx EXCEPT !.brk_current = clamped], ret |-> clamped]

\* sys_brk, lines 2940-2946: a grown break's new pages are made read-write.
brk_attrs(ctx, pa, new_end) ==
  LET r == brk(ctx, new_end)
  IN IF ctx.brk_overridden /\ r.ret > ctx.brk_current
     THEN set_page_attr(pa, ctx.brk_current, r.ret - ctx.brk_current,
                        PageAttributes(TRUE, TRUE, FALSE))
     ELSE pa

sys_brk ==
  /\ Dispatch(NR_brk)
  /\ LET r == brk(g_exec_ctx, regs[REG_A0])
     IN Return(r.ret) /\ g_exec_ctx' = r.ctx
  /\ page_attr' = brk_attrs(g_exec_ctx, page_attr, regs[REG_A0])
  /\ UNCHANGED <<m_stopped, mem, mmap_frontier, bridgeVars, hostVars, ghostVars,
                 fs, g_fork, g_next_pid, g_sched>>

\* The rootfs of an exec session: the shell "a", the loader "ld", and a
\* second program "b" whose bytes are one of the images, a script, or data.
ExecFs(b) ==
  [entries |-> <<Entry(FT_Directory), FileA,
                 [Entry(FT_Regular) EXCEPT !.content = <<1, 1>>, !.size = 2],
                 [Entry(FT_Regular) EXCEPT !.content = b, !.size = Len(b)]>>,
   children |-> ("a" :> 1) @@ ("ld" :> 2) @@ ("b" :> 3),
   open_files_ |-> <<>>,
   open_dirs_ |-> <<>>,
   next_fd_ |-> FIRST_FD]

ProgramsB == {<<1, 2>>, <<2, 1>>, <<2, 2>>, <<1, 1>>, <<2>>, <<1>>}

ArgvAddr == HEAP_START + 1

ExecPaths == {100, 101, 102, 103}

BrkArgs == 0..(INTERP_RW_END + BRK_MAX + 1)

ExecMenu ==
  {Call(NR_execve, p, ArgvAddr, 0, 0, 0) : p \in
     IF fs.next_fd_ <= MaxExecFds THEN ExecPaths ELSE {}}
    \cup {Call(NR_brk, v, 0, 0, 0, 0) : v \in BrkArgs}

GuestExec == GuestSetup(ExecMenu, {8})

\* The guest writes or clears one argv slot.
GuestArgv ==
  /\ GuestRunning
  /\ pc \notin EcallSites
  /\ \E a \in {ArgvAddr, ArgvAddr + 1}, v \in 0..MaxStore :
       mem[a] # v /\ mem' = [mem EXCEPT ![a] = v]
  /\ UNCHANGED <<regs, pc, m_stopped, mmap_frontier, page_attr, bridgeVars, hostVars,
                 ghostVars,
                 fs, procVars>>

InitExec ==
  /\ regs = [ZeroRegs EXCEPT ![REG_SP] = STACK_TOP - 1]
  /\ pc = EntryPc
  /\ m_stopped = FALSE
  /\ mem = [a \in Addr |-> 0]
  /\ mmap_frontier = HEAP_START + HEAP_SIZE
  /\ page_attr = [a \in Addr |-> PageAttributes(TRUE, TRUE, FALSE)]
  /\ stdin_buffer = <<>>
  /\ stdin_eof = FALSE
  /\ waiting_for_stdin = FALSE
  /\ stdin_mutex = "free"
  /\ uiPc = "idle"
  /\ uiData = <<>>
  /\ retries = 0
  /\ session = LoadedSession
  /\ snap = NoSnapshot
  /\ pushed = <<>>
  /\ consumed = <<>>
  /\ \E b \in ProgramsB : fs = ExecFs(b)
  /\ g_fork = ForkState
  /\ g_next_pid = FIRST_PID
  /\ g_sched = ThreadScheduler
  /\ g_exec_ctx = ExecContext
  /\ hist = NoHist
  /\ running = TRUE
  /\ execPc = "simulating"

NextExec == GuestExec \/ GuestArgv \/ sys_execve \/ sys_brk

SpecExec == InitExec /\ [][NextExec]_vars

\* The writable range sys_execve records for image data: PIE images are
\* rebased to EXEC_BASE, fixed images keep their link addresses.
RwOf(data) ==
  IF Images[data].type = ET_DYN
  THEN <<EXEC_BASE - Images[data].lo + Images[data].rw_lo,
         EXEC_BASE - Images[data].lo + Images[data].rw_hi>>
  ELSE <<Images[data].rw_lo, Images[data].rw_hi>>

ExecveSucceeds == sys_execve /\ ExecveOutcome.ok

\* The exec context's writable range is that of the binary now executing.
RwOfExecuted ==
  [][ExecveSucceeds
       => <<g_exec_ctx'.exec_rw_start, g_exec_ctx'.exec_rw_end>>
            = RwOf(g_exec_ctx'.exec_binary)]_vars

\* C17: immediately after any successful execve, on the same-binary and on
\* the new-binary path and after any earlier execve and brk calls,
\* brk_base = brk_current and [exec_rw_start, exec_rw_end) is the writable
\* range of the binary that was just executed.
C17_ExecveResetsBrk ==
  [][ExecveSucceeds
       => /\ g_exec_ctx'.brk_base = g_exec_ctx'.brk_current
          /\ <<g_exec_ctx'.exec_rw_start, g_exec_ctx'.exec_rw_end>>
               = RwOf(g_exec_ctx'.exec_binary)]_vars

\* ------------------------------------------------ syscalls.hpp: mprotect
NR_mprotect == 226

\* m.memory.mmap_start(): the first address of the mmap area.
mmap_start == HEAP_START + HEAP_SIZE

\* The page attributes sys_mprotect and sys_mmap build from prot.
prot_attr(prot) == PageAttributes(HasFlag(prot, 1), HasFlag(prot, 2), HasFlag(prot, 4))

sys_mprotect ==
  /\ Dispatch(NR_mprotect)
  /\ LET addr == regs[REG_A0]
         len == regs[REG_A1]
         prot == regs[REG_A2]
     IN page_attr' = IF addr >= mmap_start
                     THEN set_page_attr(page_attr, addr, len, prot_attr(prot))
                     ELSE page_attr
  /\ Return(0)
  /\ UNCHANGED <<m_stopped, mem, mmap_frontier, bridgeVars, hostVars, ghostVars, fs,
                 procVars>>

ProtAddrs == {EXEC_RW_START, mmap_start, INTERP_RW_START}

ProtLens == {0, 1, 2}

Prots == {0, 1, 3, 5}

MprotectCalls ==
  {Call(NR_mprotect, a, l, p, 0, 0) : a \in ProtAddrs, l \in ProtLens, p \in Prots}

ProtMenu == ForkCalls \cup ExitCalls({0}) \cup MprotectCalls

GuestProt == GuestSetup(ProtMenu, {8})

NextProt == GuestProt \/ GuestMoveSp \/ sys_clone \/ sys_mprotect \/ sys_exit

SpecProt == InitGuest /\ [][NextProt]_vars

\* C18: while in_child is true every mprotect call returns 0 and leaves the
\* page attributes of every page unchanged, for any address (also at or
\* above mmap_start), length and prot.
C18_MprotectNoOpInChild ==
  [][sys_mprotect /\ g_fork.in_child
       => regs'[REG_A0] = 0 /\ page_attr' = page_attr]_vars

\* ------------------- friscy_runtime.cpp: nativeDestroy, nativeLoadRootfs
MaxLoads == 2

\* Addresses at which the allocator can place a VirtualFS.
VfsAddrs == {1, 2}

Tars == {1, 2}

\* The VFS load_tar builds: archive 1 holds the file "a", archive 2 holds
\* the same bytes under the name "b".
TarFs(tar) == IF tar = 1 THEN LoadedFs ELSE [LoadedFs EXCEPT !.children = ("b" :> 1)]

\* nativeDestroy once nativeStop has returned: the machine and the VFS are
\* freed and the process-wide state is value-initialised. The freed VFS
\* keeps its bytes; the SyscallContext still holds its address.
NativeDestroy ==
  /\ uiPc = "idle"
  /\ ~running
  /\ execPc \in {"none", "finished"}
  /\ session.g_vfs # 0
  /\ session' = [session EXCEPT !.g_vfs = 0]
  /\ g_exec_ctx' = NoExecContext
  /\ g_sched' = ThreadScheduler
  /\ g_fork' = ForkState
  /\ g_next_pid' = FIRST_PID
  /\ UNCHANGED <<machineVars, bridgeVars, execPc, uiPc, uiData, retries, snap, ghostVars,
                 fs>>

\* install_syscalls: `static SyscallContext ctx(&fs)` is constructed by the
\* first call only; every call hands &ctx to the machine.
install_syscalls(ctx_fs, fs_addr) == IF ctx_fs = 0 THEN fs_addr ELSE ctx_fs

\* nativeLoadRootfs after a destroy: android_io::reset, a new VirtualFS at
\* an address of the allocator's choosing (that of the freed one included),
\* a new machine, install_syscalls, and the scheduler, fork state and pid
\* counter reset. The handlers reach the VFS through the SyscallContext: at
\* a reused address they find the new VFS, otherwise the freed object.
NativeLoadRootfs ==
  /\ uiPc = "idle"
  /\ ~running
  /\ execPc \in {"none", "finished"}
  /\ session.g_vfs = 0
  /\ session.loads < MaxLoads
  /\ \E tar \in Tars, addr \in VfsAddrs :
       LET ctx_fs == install_syscalls(session.ctx_fs, addr)
       IN /\ session' = [g_vfs |-> addr, ctx_fs |-> ctx_fs, tar |-> tar,
                         loads |-> session.loads + 1]
          /\ fs' = IF ctx_fs = addr THEN TarFs(tar) ELSE fs
  /\ stdin_buffer' = <<>>
  /\ stdin_eof' = FALSE
  /\ waiting_for_stdin' = FALSE
  /\ running' = FALSE
  /\ regs' = [ZeroRegs EXCEPT ![REG_SP] = STACK_TOP - 1]
  /\ pc' = EntryPc
  /\ m_stopped' = FALSE
  /\ mem' = [a \in Addr |-> 0]
  /\ mmap_frontier' = HEAP_START + HEAP_SIZE
  /\ page_attr' = [a \in Addr |-> PageAttributes(TRUE, TRUE, FALSE)]
  /\ g_exec_ctx' = ExecContext
  /\ g_sched' = ThreadScheduler
  /\ g_fork' = ForkState
  /\ g_next_pid' = FIRST_PID
  /\ UNCHANGED <<stdin_mutex, execPc, uiPc, uiData, retries, snap, ghostVars>>

SessionOpenCalls ==
  IF fs.next_fd_ <= MaxFd
  THEN {Call(NR_openat, AT_FDCWD, p, O_RDONLY, 0, 0) : p \in {100, 101}}
  ELSE {}

SessionMenu == SessionOpenCalls \cup CloseCalls \cup ForkCalls

GuestSession == GuestSetup(SessionMenu, {8})

NextSession ==
  \/ GuestSession \/ sys_openat \/ sys_close \/ sys_clone
  \/ ExecLoopTop \/ ExecSimEnter \/ ExecSimReturn \/ ExecSimFail \/ ExecAfterSim
  \/ ExecFinish
  \/ NativeStart \/ NativeStartSpawn \/ NativeStop \/ StopMachine \/ StopNotify
  \/ StopJoin \/ NativeDestroy \/ NativeLoadRootfs

SpecSession == InitIO /\ [][NextSession]_vars

\* The process-wide state starts a new session from its initial values.
RestartResetsState ==
  [][NativeLoadRootfs
       => /\ g_fork' = ForkState
          /\ g_sched' = ThreadScheduler
          /\ g_exec_ctx' = ExecContext
          /\ g_next_pid' = FIRST_PID]_vars

\* C19: after destroy and a load_rootfs of a new tar the syscall handlers
\* of the new machine operate on the VFS that load_rootfs built, never on
\* the VFS of the destroyed session, and the fork state, the scheduler and
\* the exec context start from their initial values.
C19_RestartUsesNewVfs ==
  [][NativeLoadRootfs
       => /\ session'.ctx_fs = session'.g_vfs
          /\ fs' = TarFs(session'.tar)
          /\ g_fork' = ForkState
          /\ g_sched' = ThreadScheduler
          /\ g_exec_ctx' = ExecContext
          /\ g_next_pid' = FIRST_PID]_vars

\* ------------- friscy_runtime.cpp: nativeSaveSnapshot, nativeRestoreSnapshot
\* The file is a sequence of cells: the five header fields, the register
\* block (pc and the registers), the arena. SNAPSHOT_MAGIC is the low word
\* of 0x4653524953435946.
SNAPSHOT_MAGIC == 1396922694
SNAPSHOT_VERSION == 1
HEADER_CELLS == 5

RegOrder == <<REG_RA, REG_SP, REG_TP, REG_A0, REG_A1, REG_A2, REG_A3, REG_A4, REG_A7>>

\* sizeof(cpu.registers()) and memory_arena_size() of the live machine.
regs_size == 1 + Len(RegOrder)

arena_size == Cardinality(Addr)

\* cpu.registers() as a block of cells.
registers(r, p) == <<p>> \o [i \in 1..Len(RegOrder) |-> r[RegOrder[i]]]

\* The arena as a block of cells.
arena(m) == [i \in 1..arena_size |-> m[i]]

\* The file nativeSaveSnapshot writes.
save_snapshot(r, p, m) ==
  <<SNAPSHOT_MAGIC, SNAPSHOT_VERSION, regs_size, arena_size, 0>>
    \o registers(r, p) \o arena(m)

\* fread of up to n cells at position pos: the cells the file still has.
fread(file, pos, n) == SubSeq(file, pos + 1, Min(pos + n, Len(file)))

\* A destination block after fread stored `got` over its first cells.
stored(block, got) == got \o SubSeq(block, Len(got) + 1, Len(block))

\* A header field; a field the file is too short for keeps its initial 0.
header(file, i) == IF Len(file) >= i THEN file[i] ELSE 0

\* A restore that does not compare the arena size.
restore_snapshot_unchecked(file, r, p, m) ==
  LET got_regs == fread(file, HEADER_CELLS, header(file, 3))
      block == stored(registers(r, p), got_regs)
      got_arena == fread(file, HEADER_CELLS + Len(got_regs), header(file, 4))
      cells == stored(arena(m), SubSeq(got_arena, 1, Min(Len(got_arena), arena_size)))
      rejected == [ok |-> FALSE, regs |-> r, pc |-> p, mem |-> m]
  IN IF header(file, 1) # SNAPSHOT_MAGIC THEN rejected
     ELSE IF header(file, 2) # SNAPSHOT_VERSION THEN rejected
     ELSE IF header(file, 3) # regs_size THEN rejected
     ELSE [ok |-> Len(got_arena) = header(file, 4),
           regs |-> [x \in Regs |->
                       block[1 + CHOOSE i \in 1..Len(RegOrder) : RegOrder[i] = x]],
           pc |-> block[1],
           mem |-> [a \in Addr |-> cells[a]]]

\* nativeRestoreSnapshot on the bytes of file: the four header checks, then
\* the register block, then the arena; a short arena read fails after the
\* cells it did read were stored.
restore_snapshot(file, r, p, m) ==
  LET got_regs == fread(file, HEADER_CELLS, header(file, 3))
      block == stored(registers(r, p), got_regs)
      got_arena == fread(file, HEADER_CELLS + Len(got_regs), header(file, 4))
      cells == stored(arena(m), got_arena)
      rejected == [ok |-> FALSE, regs |-> r, pc |-> p, mem |-> m]
  IN IF header(file, 1) # SNAPSHOT_MAGIC THEN rejected
     ELSE IF header(file, 2) # SNAPSHOT_VERSION THEN rejected
     ELSE IF header(file, 3) # regs_size THEN rejected
     ELSE IF header(file, 4) # arena_size THEN rejected
     ELSE [ok |-> Len(got_arena) = header(file, 4),
           regs |-> [x \in Regs |->
                       block[1 + CHOOSE i \in 1..Len(RegOrder) : RegOrder[i] = x]],
           pc |-> block[1],
           mem |-> [a \in Addr |-> cells[a]]]

\* The execution thread is not running: the host owns the machine.
Quiescent == uiPc = "idle" /\ ~running /\ execPc \in {"none", "finished"}

\* One of the checked header fields differs from the live machine's.
Mismatch(file) ==
  \/ header(file, 1) # SNAPSHOT_MAGIC
  \/ header(file, 2) # SNAPSHOT_VERSION
  \/ header(file, 3) # 1 + Len(RegOrder)
  \/ header(file, 4) # Cardinality(Addr)

NativeSaveSnapshot ==
  /\ Quiescent
  /\ snap' = [snap EXCEPT !.file = save_snapshot(regs, pc, mem),
                          !.ret = TRUE,
                          !.last = "save",
                          !.saved = [regs |-> regs, pc |-> pc, mem |-> mem],
                          !.differed = FALSE]
  /\ UNCHANGED <<machineVars, bridgeVars, execPc, uiPc, uiData, retries, session,
                 ghostVars, fs, procVars>>

NativeRestoreSnapshot ==
  /\ Quiescent
  /\ snap.file # <<>>
  /\ LET r == restore_snapshot(snap.file, regs, pc, mem)
     IN /\ regs' = r.regs
        /\ pc' = r.pc
        /\ mem' = r.mem
        /\ snap' = [snap EXCEPT
                      !.ret = r.ok,
                      !.last = "restore",
                      !.differed = <<regs, pc, mem>>
                                     # <<snap.saved.regs, snap.saved.pc, snap.saved.mem>>,
                      !.rejected = @ \/ Mismatch(snap.file)]
  /\ UNCHANGED <<m_stopped, mmap_frontier, page_attr, bridgeVars, execPc, uiPc, uiData,
                 retries, session, ghostVars, fs, procVars>>

\* The host puts another file at the snapshot path: the saved one with one
\* header field changed, or cut short.
HostReplaceFile ==
  /\ Quiescent
  /\ snap.last = "save"
  /\ snap.file = save_snapshot(snap.saved.regs, snap.saved.pc, snap.saved.mem)
  /\ \/ \E i \in 1..4 : snap' = [snap EXCEPT !.file[i] = @ + 1]
     \/ \E n \in {HEADER_CELLS - 1, HEADER_CELLS + 1, HEADER_CELLS + regs_size + 1} :
          snap' = [snap EXCEPT !.file = SubSeq(@, 1, n)]
  /\ UNCHANGED <<machineVars, bridgeVars, execPc, uiPc, uiData, retries, session,
                 ghostVars, fs, procVars>>

SnapMenu == {Call(NR_gettid, 0, 0, 0, 0, 0)}

GuestSnap == GuestSetup(SnapMenu, {8})

NextSnap ==
  \/ GuestSnap \/ GuestFill \/ sys_gettid
  \/ ExecLoopTop \/ ExecSimEnter \/ ExecSimReturn \/ ExecSimFail \/ ExecAfterSim
  \/ ExecFinish
  \/ NativeStart \/ NativeStartSpawn \/ NativeStop \/ StopMachine \/ StopNotify
  \/ StopJoin
  \/ NativeSaveSnapshot \/ NativeRestoreSnapshot \/ HostReplaceFile

SpecSnap == InitIO /\ [][NextSnap]_vars

\* C20: a restore of the file a save wrote, on the machine it was saved
\* from (same register-block and arena size), succeeds and leaves the
\* registers and the arena bytes identical to those at save time; a file
\* whose magic, version, register-block size or arena size does not match
\* is rejected with failure and no register or arena byte is modified.
C20_SnapshotRoundTrip ==
  /\ [][NativeRestoreSnapshot
          /\ snap.file = save_snapshot(snap.saved.regs, snap.saved.pc, snap.saved.mem)
          => /\ snap'.ret
             /\ regs' = snap.saved.regs
             /\ pc' = snap.saved.pc
             /\ mem' = snap.saved.mem]_vars
  /\ [][NativeRestoreSnapshot /\ Mismatch(snap.file)
          => /\ ~snap'.ret
             /\ UNCHANGED <<regs, pc, mem>>]_vars

\* A restore has just put back a saved state that the guest had since left,
\* after an earlier restore of a mismatching file was rejected.
C20_Witness ==
  /\ snap.last = "restore"
  /\ snap.ret
  /\ snap.differed
  /\ snap.rejected
  /\ <<regs, pc, mem>> = <<snap.saved.regs, snap.saved.pc, snap.saved.mem>>

\* ------------------------------------------------ properties: nested fork
\* The ecall being dispatched is a clone of the fork form.
ForkFormClone ==
  /\ Dispatch(NR_clone)
  /\ ~(HasFlag(regs[REG_A0], F_CLONE_THREAD)
       \/ (HasFlag(regs[REG_A0], F_CLONE_VM) /\ ~HasFlag(regs[REG_A0], F_CLONE_VFORK)))

\* C24: a fork-form clone issued while in_child is true returns -EAGAIN and
\* leaves the fork state (saved registers, pc, child pid, the four snapshot
\* buffers, the parent fd set, in_child) and the PID counter unchanged.
C24_NestedForkRefused ==
  [][(ForkFormClone /\ g_fork.in_child /\ sys_clone)
       => /\ regs'[REG_A0] = -EAGAIN
          /\ pc' = cpu_pc
          /\ g_fork' = g_fork
          /\ g_next_pid' = g_next_pid]_vars

\* The child was refused a fork after it had changed memory the parent's
\* snapshot holds, and the snapshot still holds the parent's bytes.
C24_Witness ==
  /\ g_fork.in_child
  /\ regs[REG_A0] = -EAGAIN
  /\ regs[REG_A7] = NR_clone
  /\ pc \notin EcallSites
  /\ \E a \in hist.clone_span : mem[a] # hist.clone_mem[a]

\* ------------------------------------------- specs: fork and page faults
\* The guest maps pages, takes read permission away from pages of the mmap
\* area, the interpreter data and the stack, and forks.
FaultProts == {0, 3}

FaultCalls ==
  IF g_fork.in_child THEN {}
  ELSE {Call(NR_mprotect, a, l, p, 0, 0) : a \in {mmap_start, INTERP_RW_START},
                                          l \in {1, 2}, p \in FaultProts}

FaultMenu == ForkCalls \cup ExitCalls({0}) \cup MmapCalls \cup FaultCalls

GuestFault == GuestSetup(FaultMenu, {8})

NextFault ==
  \/ GuestFault \/ GuestStore
  \/ sys_clone \/ sys_mprotect \/ sys_mmap \/ sys_exit

SpecFault == InitGuest /\ [][NextFault]_vars

\* ---------------------------------------- properties: fork and page faults
\* The four buffers of g_fork.
ForkBuffers ==
  {g_fork.exec_data, g_fork.interp_data, g_fork.stack_data, g_fork.mmap_data}

\* The buffers hold every byte of the four regions as the memory was when
\* the clone was issued, and the fd set is the one open at that moment.
SaveComplete ==
  /\ UNION {{a \in Addr : a >= r.addr /\ a < r.addr + Len(r.data)} : r \in ForkBuffers}
       = hist.clone_span
  /\ \A r \in ForkBuffers :
       r.data # <<>> => /\ Len(r.data) = r.size
                        /\ \A i \in 1..r.size : r.data[i] = hist.clone_mem[r.addr + i - 1]
  /\ g_fork.parent_open_fds = DOMAIN hist.clone_fds

\* The step in which a snapshot copy of the fork handler faults.
ForkFaults == ForkFormClone /\ ~g_fork.in_child /\ sys_clone /\ g_fork'.child_pid # 0
                /\ (pc' = pc \/ execPc' # execPc) /\ regs' = regs

\* C25: in_child is true only if the four region snapshots and the parent
\* fd set of the current fork are completely recorded; a save that faults
\* part-way leaves in_child false and the pc at the ecall, and the handler
\* that runs again is not refused as a nested fork.
C25_InChildAfterSave ==
  /\ [](g_fork.in_child => SaveComplete)
  /\ [][ForkFaults => ~g_fork'.in_child /\ pc' \in EcallSites]_vars
  /\ [][(ForkFormClone /\ ~g_fork.in_child /\ sys_clone)
          => regs'[REG_A0] # -EAGAIN]_vars

\* The first fork faulted once, the handler ran again with the next PID and
\* the child now runs on a complete save that includes a mapped page.
C25_Witness ==
  /\ g_fork.in_child
  /\ retries = 1
  /\ g_fork.child_pid = FIRST_PID + 1
  /\ g_fork.mmap_data.data # <<>>
  /\ SaveComplete

\* ----------------------------------------------- properties: wait4 by child
\* C26: a wait4 issued while in_child is true (by the child that is still
\* running) never returns the child PID and never sets child_reaped.
C26_NoReapWhileChildRuns ==
  [][(sys_wait4 /\ g_fork.in_child)
       => /\ regs'[REG_A0] # g_fork.child_pid
          /\ g_fork'.child_reaped = g_fork.child_reaped]_vars

\* ------------------------------------------------- properties: futex WAIT
\* The ecall being dispatched is a futex WAIT whose word equals expected.
FutexWaitHit ==
  /\ Dispatch(NR_futex)
  /\ regs[REG_A1] % FUTEX_CMD_SPAN \in {FUTEX_WAIT, FUTEX_WAIT_BITSET}
  /\ InArena(regs[REG_A0], 1)
  /\ mem[regs[REG_A0]] = regs[REG_A2]

\* The active non-waiting slots other than the current one.
OtherRunnable ==
  {i \in Slots : i # g_sched.current /\ g_sched.threads[i].active
                 /\ ~g_sched.threads[i].waiting}

\* C27: futex WAIT on a word that equals expected. With another active
\* non-waiting slot, the calling slot is marked waiting on the address and
\* one of those slots becomes current; with none, the calling slot is not
\* left waiting, 0 is written to the word and the call returns 0.
C27_FutexWait ==
  [][(FutexWaitHit /\ sys_futex)
       => IF OtherRunnable # {}
          THEN /\ g_sched'.threads[g_sched.current].waiting
               /\ g_sched'.threads[g_sched.current].futex_addr = regs[REG_A0]
               /\ g_sched'.current \in OtherRunnable
               /\ mem' = mem
          ELSE /\ ~g_sched'.threads[g_sched.current].waiting
               /\ g_sched'.current = g_sched.current
               /\ mem'[regs[REG_A0]] = 0
               /\ regs'[REG_A0] = 0
               /\ pc' = cpu_pc]_vars

\* One thread is parked on a futex word and the thread that now runs has
\* just come back from a WAIT with nobody to switch to: the word is 0.
C27_Witness ==
  /\ \E i \in Slots :
       /\ i # g_sched.current
       /\ g_sched.threads[i].active
       /\ g_sched.threads[i].waiting
       /\ g_sched.threads[i].futex_addr \in FutexAddrs
  /\ OtherRunnable = {}
  /\ g_sched.threads[g_sched.current].active
  /\ regs[REG_A7] = NR_futex
  /\ regs[REG_A1] % FUTEX_CMD_SPAN = FUTEX_WAIT
  /\ regs[REG_A0] = 0
  /\ pc \notin EcallSites
  /\ \E a \in FutexAddrs : mem[a] = 0

\* -------------------------------------------- properties: futex deadlock
\* There are active slots and each of them is waiting on a futex.
AllActiveWaiting ==
  /\ \E i \in Slots : g_sched.threads[i].active
  /\ \A i \in Slots : g_sched.threads[i].active => g_sched.threads[i].waiting

\* C28: the current slot is never marked waiting, and the scheduler never
\* reaches a state in which every active slot is waiting.
C28_NoFutexDeadlock ==
  /\ ~g_sched.threads[g_sched.current].waiting
  /\ ~AllActiveWaiting

\* The first half of C28 on its own: the current slot is never waiting.
C28_CurrentNeverWaiting == ~g_sched.threads[g_sched.current].waiting

\* ------------------------------------------------ specs: the time quantum
\* Threads that poll the clock: a thread calls clock_gettime at any time,
\* and clones a worker or exits at the start or the end of a quantum.
QuantumEdge ==
  g_sched.threads[g_sched.current].syscall_budget
    \in {0, THREAD_QUANTUM - 1, THREAD_QUANTUM}

QuantumMenu ==
  {Call(NR_clock_gettime, 0, INTERP_RW_START, 0, 0, 0)}
    \cup (IF QuantumEdge THEN WorkerCalls \cup {Call(NR_exit, 0, 0, 0, 0, 0)} ELSE {})

GuestQuantum == GuestSetup(QuantumMenu, {8})

NextQuantum == GuestQuantum \/ sys_clone \/ sys_clock_gettime \/ sys_exit

SpecQuantum == InitGuest /\ [][NextQuantum]_vars

\* --------------------------------------------- properties: the time quantum
\* A step after which another slot is the current one.
BecomesCurrent == g_sched'.current # g_sched.current

\* A clock_gettime of a thread that has a runnable sibling.
ClockWithSibling ==
  /\ Dispatch(NR_clock_gettime)
  /\ sys_clock_gettime
  /\ g_sched.count > 1
  /\ OtherRunnable # {}

\* C29: a slot that becomes current holds a budget of THREAD_QUANTUM; each
\* clock_gettime of a thread with a runnable sibling takes one from the
\* current slot's budget, and the call that takes the budget to zero
\* switches to another slot.
C29_QuantumBounded ==
  /\ [][BecomesCurrent
          => g_sched'.threads[g_sched'.current].syscall_budget = THREAD_QUANTUM]_vars
  /\ [][ClockWithSibling
          => IF g_sched.threads[g_sched.current].syscall_budget > 1
             THEN /\ g_sched'.current = g_sched.current
                  /\ g_sched'.threads[g_sched.current].syscall_budget
                       = g_sched.threads[g_sched.current].syscall_budget - 1
             ELSE BecomesCurrent]_vars

\* The switch half of C29 on its own: the call that takes the budget from
\* 1 to 0 switches to another slot.
SwitchWhenBudgetReachesZero ==
  [][(ClockWithSibling /\ g_sched.threads[g_sched.current].syscall_budget = 1)
       => BecomesCurrent]_vars

\* What the handler does: a slot is switched out by the clock only on a
\* call it makes with a budget of zero.
SwitchOnCallAfterZero ==
  [][ClockWithSibling
       => (BecomesCurrent <=> g_sched.threads[g_sched.current].syscall_budget = 0)]_vars

\* -------------------------------------------------- specs: yield points
\* Threads that never block: each clones workers and then reaches one yield
\* point after another (sched_yield, nanosleep, an exhausted quantum at
\* clock_gettime).
YieldMenu ==
  WorkerCalls \cup ClockCalls
    \cup {Call(NR_nanosleep, EXEC_RW_START, 0, 0, 0, 0),
          Call(NR_sched_yield, 0, 0, 0, 0, 0)}

GuestYield == GuestSetup(YieldMenu, {8})

NextYield ==
  \/ GuestYield
  \/ sys_clone \/ sys_nanosleep \/ sys_sched_yield \/ sys_clock_gettime

\* The running thread always reaches its next instruction and its next
\* system call.
FairSpecYield == InitGuest /\ [][NextYield]_vars /\ WF_vars(NextYield)

\* ---------------------------------------------- properties: yield points
\* The active slots that are not waiting.
Runnable == {i \in Slots : g_sched.threads[i].active /\ ~g_sched.threads[i].waiting}

\* C30: with three or more active slots, all runnable, whose threads keep
\* reaching yield points, every runnable slot eventually becomes current.
C30_NoStarvation ==
  \A i \in Slots :
    [](((Cardinality(Runnable) >= 3 /\ i \in Runnable)) => <>(g_sched.current = i))

\* --------------------------------------- vfs.hpp, syscalls.hpp: file sizes
NR_eventfd2 == 19
NR_ftruncate == 46

\* The length of the counter an eventfd's Entry holds.
EVENTFD_LEN == 8

\* VirtualFS::ftruncate: resize keeps the leading bytes and zero-fills.
vfs_ftruncate(f, fd, length) ==
  IF fd \notin DOMAIN f.open_files_ THEN [fs |-> f, ret |-> -EBADF]
  ELSE LET e == f.open_files_[fd].entry
           content == EntryOf(f, e).content
           resized == [i \in 1..length |-> IF i <= Len(content) THEN content[i] ELSE 0]
       IN IF ~is_file(f, e) THEN [fs |-> f, ret |-> -EINVAL]
          ELSE [fs |-> [f EXCEPT !.entries[e + 1].content = resized,
                                 !.entries[e + 1].size = length,
                                 !.open_files_[fd].offset =
                                    IF @ > length THEN length ELSE @],
                ret |-> 0]

sys_ftruncate ==
  /\ Dispatch(NR_ftruncate)
  /\ LET r == vfs_ftruncate(fs, regs[REG_A0], regs[REG_A1])
     IN fs' = r.fs /\ Return(r.ret)
  /\ UNCHANGED <<m_stopped, mem, mmap_frontier, page_attr, bridgeVars, hostVars,
                 ghostVars, procVars>>

\* sys_eventfd2: a Regular Entry outside the tree, size 0 and eight zero
\* bytes of content, opened through open_pipe.
sys_eventfd2 ==
  /\ Dispatch(NR_eventfd2)
  /\ LET entry == new_entry(fs)
         f0 == [fs EXCEPT !.entries =
                  Append(@, [Entry(FT_Regular) EXCEPT
                               !.size = 0,
                               !.content = [i \in 1..EVENTFD_LEN |-> 0]])]
         r == open_pipe(f0, entry, 0)
     IN fs' = r.fs /\ Return(r.ret)
  /\ UNCHANGED <<m_stopped, mem, mmap_frontier, page_attr, bridgeVars, hostVars,
                 ghostVars, procVars>>

\* ---------------------------------------------------- specs: file sizes
SizeOpenCalls ==
  IF fs.next_fd_ <= MaxFd
  THEN {Call(NR_openat, AT_FDCWD, p, fl, 0, 0) :
          p \in {100, 101}, fl \in {O_RDWR, O_RDWR + O_CREAT, O_RDWR + O_TRUNC}}
         \cup {Call(NR_eventfd2, 0, 0, 0, 0, 0)}
  ELSE {}

TruncateCalls ==
  {Call(NR_ftruncate, fd, n, 0, 0, 0) : fd \in get_open_fds(fs), n \in 0..MaxFileLen}

SizeMenu == SizeOpenCalls \cup CloseCalls \cup FileWriteCalls \cup TruncateCalls

GuestSize == GuestSetup(SizeMenu, {8})

NextSize ==
  \/ GuestSize \/ GuestFill
  \/ sys_openat \/ sys_close \/ sys_write \/ sys_pwrite64
  \/ sys_ftruncate \/ sys_eventfd2

SpecSize == InitGuest /\ [][NextSize]_vars

\* ----------------------------------------------- properties: file sizes
\* The Entries reachable from the tree or from an open fd.
ReachableEntries ==
  {fs.children[n] : n \in DOMAIN fs.children}
    \cup {fs.open_files_[fd].entry : fd \in DOMAIN fs.open_files_}

\* C23: every Regular Entry reachable from the tree or from an open fd has
\* size equal to the length of its content.
C23_SizeIsLength ==
  \A e \in ReachableEntries :
    is_file(fs, e) => EntryOf(fs, e).size = Len(EntryOf(fs, e).content)

\* The same for the Entries that no eventfd2 call made.
SizeIsLengthOffEventfd ==
  \A e \in ReachableEntries :
    is_file(fs, e) /\ Len(EntryOf(fs, e).content) < EVENTFD_LEN
      => EntryOf(fs, e).size = Len(EntryOf(fs, e).content)

\* --------------------------------- elf_loader.hpp: segment page permissions
\* Addresses here are bytes; a page is RISCV_PAGE bytes and page_attr, mem
\* hold one cell per page (the cell of byte b is b \div RISCV_PAGE).
RISCV_PAGE == 2
PF_X == 1
PF_W == 2
PF_R == 4

SegInfo(vaddr, filesz, memsz, flags) ==
  [vaddr |-> vaddr, filesz |-> filesz, memsz |-> memsz, flags |-> flags]

\* addr & RISCV_PAGE_MASK
page_floor(addr) == addr - (addr % RISCV_PAGE)

\* Pass 1: the pages copy_with_retry and memset_with_retry write for seg.
copied(seg, cell) ==
  \/ seg.filesz > 0
       /\ cell >= seg.vaddr \div RISCV_PAGE
       /\ cell <= (seg.vaddr + seg.filesz - 1) \div RISCV_PAGE
  \/ seg.memsz > seg.filesz
       /\ cell >= (seg.vaddr + seg.filesz) \div RISCV_PAGE
       /\ cell <= (seg.vaddr + seg.memsz - 1) \div RISCV_PAGE

\* Pass 1 on the page table: a write fault makes the page RWX and the copy
\* goes on.
copy_with_retry(pa, segments) ==
  [a \in Addr |->
     IF (\E i \in DOMAIN segments : copied(segments[i], a)) /\ (pa[a] \div 2) % 2 = 0
     THEN PageAttributes(TRUE, TRUE, TRUE) ELSE pa[a]]

\* Pass 1 on memory: the image's bytes land on every page written.
copy_segments(m, segments) ==
  [a \in Addr |->
     IF \E i \in DOMAIN segments : copied(segments[i], a)
     THEN load_elf_segments(m, a, a + 1)[a] ELSE m[a]]

\* Pass 2's test "does this page overlap with this segment?".
page_overlaps(seg, page) ==
  page < seg.vaddr + seg.memsz /\ page + RISCV_PAGE > seg.vaddr

\* Pass 2's r, w, x for one page: the OR over the segments the test accepts.
merged_attr(segments, page) ==
  LET over == {i \in DOMAIN segments : page_overlaps(segments[i], page)}
  IN PageAttributes(\E i \in over : (segments[i].flags \div PF_R) % 2 = 1,
                    \E i \in over : (segments[i].flags \div PF_W) % 2 = 1,
                    \E i \in over : (segments[i].flags \div PF_X) % 2 = 1)

\* Pass 2: every page of [range_lo, range_hi) that some segment touches gets
\* the merged attributes.
merge_permissions(pa, segments) ==
  LET los == {page_floor(segments[i].vaddr) : i \in DOMAIN segments}
      his == {page_floor(segments[i].vaddr + segments[i].memsz + RISCV_PAGE - 1) :
                i \in DOMAIN segments}
      range_lo == CHOOSE lo \in los : \A x \in los : lo <= x
      range_hi == CHOOSE hi \in his : \A x \in his : hi >= x
  IN [a \in Addr |->
        IF a * RISCV_PAGE >= range_lo /\ a * RISCV_PAGE < range_hi
             /\ \E i \in DOMAIN segments : page_overlaps(segments[i], a * RISCV_PAGE)
        THEN merged_attr(segments, a * RISCV_PAGE) ELSE pa[a]]

\* ------------------------------------------------- specs: loading an ELF
MaxSegments == 2
MaxMemsz == 3
MaxFilesz == 1

SegFlags == {PF_R + PF_X, PF_R + PF_W}

Segs ==
  {SegInfo(v, fsz, msz, fl) :
     v \in (RISCV_PAGE)..(2 * RISCV_PAGE - 1), fsz \in 0..MaxFilesz,
     msz \in {0, 1, MaxMemsz}, fl \in SegFlags}

SegLists == UNION {[1..n -> Segs] : n \in 1..MaxSegments}

\* load_elf_segments on the PT_LOAD segments of one image.
LoadElf ==
  /\ \E segments \in SegLists :
       /\ mem' = copy_segments(mem, segments)
       /\ page_attr' = merge_permissions(copy_with_retry(page_attr, segments), segments)
       /\ hist' = [hist EXCEPT !.segments = segments]
  /\ UNCHANGED <<m_stopped, regs, pc, mmap_frontier, bridgeVars, hostVars, pushed,
                 consumed, fs, procVars>>

SpecElf == InitGuest /\ [][LoadElf]_vars

\* --------------------------------------------- properties: loading an ELF
\* Segment seg holds at least one byte of the page in this cell.
Covers(seg, cell) ==
  \E b \in seg.vaddr..(seg.vaddr + seg.memsz - 1) : b \div RISCV_PAGE = cell

\* The OR of one flag over the loaded segments that cover the cell.
FlagOver(cell, flag) ==
  \E i \in DOMAIN hist.segments :
    Covers(hist.segments[i], cell) /\ (hist.segments[i].flags \div flag) % 2 = 1

\* Every page that a loaded segment covers has the OR of the covering
\* segments' flags.
PagesMerged ==
  \A a \in Addr :
    (\E i \in DOMAIN hist.segments : Covers(hist.segments[i], a))
      => page_attr[a] = PageAttributes(FlagOver(a, PF_R), FlagOver(a, PF_W),
                                       FlagOver(a, PF_X))

\* C22: after load_elf_segments, each page that PT_LOAD segments overlap has
\* read, write and exec equal to the OR of the flags of the segments
\* overlapping it; a data segment never removes a code segment's exec.
C22_PermissionsAreOr == PagesMerged

\* The same for images none of whose segments is empty.
PermissionsAreOrNoEmptySegment ==
  (\A i \in DOMAIN hist.segments : hist.segments[i].memsz > 0) => PagesMerged

\* ------------------------- vfs.hpp: mkdir, unlink, symlink, rename, paths
FT_Symlink == "Symlink"
ENOTEMPTY == 39
AT_REMOVEDIR == 512

\* The characters of a path: 1..3 are letters.
SLASH == 9
DOT == 8

\* The paths of the tree (no leading slash) and their characters.  The tree
\* is kept as a map from a path to its Entry; a path's parent is the path up
\* to its last slash.
PathChars ==
  ("a" :> <<1>>) @@ ("b" :> <<2>>) @@ ("d" :> <<3>>)
    @@ ("d/a" :> <<3, SLASH, 1>>) @@ ("d/b" :> <<3, SLASH, 2>>)

ParentOf ==
  ("a" :> "/") @@ ("b" :> "/") @@ ("d" :> "/") @@ ("d/a" :> "d") @@ ("d/b" :> "d")
    @@ ("?" :> "/") @@ ("ld" :> "/")

\* resolve(parent_path) is a directory.
parent_is_dir(f, path) ==
  \/ ParentOf[path] = "/"
  \/ ParentOf[path] \in DOMAIN f.children /\ is_dir(f, f.children[ParentOf[path]])

\* node->children is not empty.
has_children(f, path) == \E p \in DOMAIN f.children : ParentOf[p] = path

\* VirtualFS::insert_entry of a new Entry: missing parent directories are
\* made with mode 0755.
insert_entry(f, path, entry) ==
  LET f1 == [f EXCEPT !.entries = Append(@, entry)]
      f2 == IF ParentOf[path] # "/" /\ ParentOf[path] \notin DOMAIN f.children
            THEN [f1 EXCEPT !.entries =
                              Append(@, [Entry(FT_Directory) EXCEPT !.mode = 493]),
                            !.children = With(@, ParentOf[path], new_entry(f1))]
            ELSE f1
  IN [f2 EXCEPT !.children = With(@, path, new_entry(f))]

\* VirtualFS::mkdir
vfs_mkdir(f, path, mode) ==
  IF path \in DOMAIN f.children THEN [fs |-> f, ret |-> -EEXIST]
  ELSE IF ~parent_is_dir(f, path) THEN [fs |-> f, ret |-> -ENOENT]
  ELSE [fs |-> insert_entry(f, path, [Entry(FT_Directory) EXCEPT !.mode = mode % 512]),
        ret |-> 0]

\* VirtualFS::unlink
vfs_unlink(f, path, flags) ==
  IF ~parent_is_dir(f, path) \/ path \notin DOMAIN f.children
  THEN [fs |-> f, ret |-> -ENOENT]
  ELSE IF is_dir(f, f.children[path]) /\ ~HasFlag(flags, AT_REMOVEDIR)
  THEN [fs |-> f, ret |-> -EISDIR]
  ELSE IF ~is_dir(f, f.children[path]) /\ HasFlag(flags, AT_REMOVEDIR)
  THEN [fs |-> f, ret |-> -ENOTDIR]
  ELSE IF is_dir(f, f.children[path]) /\ has_children(f, path)
  THEN [fs |-> f, ret |-> -ENOTEMPTY]
  ELSE [fs |-> [f EXCEPT !.children = Without(@, path)], ret |-> 0]

\* VirtualFS::symlink
vfs_symlink(f, target, linkpath) ==
  IF linkpath \in DOMAIN f.children THEN [fs |-> f, ret |-> -EEXIST]
  ELSE [fs |-> insert_entry(f, linkpath,
                            [Entry(FT_Symlink) EXCEPT !.mode = 511,
                                                      !.link_target = target]),
        ret |-> 0]

\* VirtualFS::rename of an entry that is not a directory with children onto
\* a path that is not one either.
vfs_rename(f, oldpath, newpath) ==
  IF oldpath \notin DOMAIN f.children THEN [fs |-> f, ret |-> -ENOENT]
  ELSE IF ~parent_is_dir(f, newpath) THEN [fs |-> f, ret |-> -ENOENT]
  ELSE IF ParentOf[newpath] = oldpath
  THEN \* a directory moved under itself is its own child and leaves the tree
       [fs |-> [f EXCEPT !.children = Without(@, oldpath)], ret |-> 0]
  ELSE [fs |-> [f EXCEPT !.children =
                           With(Without(Without(@, newpath), oldpath), newpath,
                                f.children[oldpath])],
        ret |-> 0]

\* ------------------------------------------ vfs.hpp: save_tar and load_tar
\* An archive is a sequence of blocks.  A header block carries the fields of
\* the tar header, each cut to what its field holds; a data block carries
\* TarBlock bytes.  NameField and LinkField are the lengths of the name and
\* linkname fields.
TarBlock == 2
NameField == 2
LinkField == 2

\* The name "././@LongLink".
LONGLINK == <<DOT, SLASH, DOT, SLASH>>

ZeroBlock ==
  [name |-> <<>>, mode |-> 0, uid |-> 0, gid |-> 0, size |-> 0, mtime |-> 0,
   type_flag |-> "", linkname |-> <<>>, bytes |-> [i \in 1..TarBlock |-> 0]]

\* write_octal(buf, len, val): len - 1 octal digits, the low ones (no value
\* here reaches the eleven digits of a 12-byte field).
write_octal(len, val) == IF len > 11 THEN val ELSE val % (8 ^ (len - 1))

\* parse_octal of a field write_octal filled.
parse_octal(field) == field

\* (n + 511) / 512
blocks_for(n) == (n + TarBlock - 1) \div TarBlock

\* The bytes followed by zeros up to the next block boundary, as blocks.
padded(bytes) ==
  [k \in 1..blocks_for(Len(bytes)) |->
     [ZeroBlock EXCEPT !.bytes =
        [i \in 1..TarBlock |-> IF (k - 1) * TarBlock + i <= Len(bytes)
                               THEN bytes[(k - 1) * TarBlock + i] ELSE 0]]]

\* The first n bytes of the data blocks of ar that start at block from.
data_at(ar, from, n) ==
  [i \in 1..n |-> ar[from + ((i - 1) \div TarBlock)].bytes[1 + ((i - 1) % TarBlock)]]

\* std::string::c_str(): the characters before the first NUL.
c_str(s) ==
  IF \E i \in 1..Len(s) : s[i] = 0
  THEN SubSeq(s, 1, (CHOOSE i \in 1..Len(s) : s[i] = 0 /\ \A j \in 1..(i - 1) : s[j] # 0) - 1)
  ELSE s

type_flag_of(t) ==
  IF t = FT_Directory THEN "5" ELSE IF t = FT_Symlink THEN "2"
  ELSE IF t = FT_Fifo THEN "6" ELSE "0"

type_of_flag(c) ==
  IF c = "5" THEN FT_Directory ELSE IF c = "2" THEN FT_Symlink
  ELSE IF c = "6" THEN FT_Fifo ELSE FT_Regular

\* VirtualFS::emit_long_name_header
emit_long_name_header(long_name) ==
  <<[ZeroBlock EXCEPT !.name = LONGLINK, !.bytes = <<>>, !.type_flag = "L",
                      !.size = write_octal(12, Len(long_name) + 1)]>>
    \o padded(long_name \o <<0>>)

\* VirtualFS::emit_tar_header: the blocks one entry adds to the archive.
emit_tar_header(path, entry) ==
  LET tar_path == IF entry.type = FT_Directory THEN PathChars[path] \o <<SLASH>>
                  ELSE PathChars[path]
      content_size == IF entry.type = FT_Regular THEN Len(entry.content) ELSE 0
      hdr ==
        [ZeroBlock EXCEPT
           !.bytes = <<>>,
           !.name = SubSeq(tar_path, 1, Min(Len(tar_path), NameField)),
           !.mode = write_octal(8, entry.mode),
           !.uid = write_octal(8, entry.uid),
           !.gid = write_octal(8, entry.gid),
           !.size = write_octal(12, content_size),
           !.mtime = write_octal(12, entry.mtime),
           !.type_flag = type_flag_of(entry.type),
           !.linkname = IF entry.type = FT_Symlink
                        THEN SubSeq(entry.link_target, 1,
                                    Min(Len(entry.link_target), LinkField))
                        ELSE <<>>]
  IN (IF Len(tar_path) > NameField THEN emit_long_name_header(tar_path) ELSE <<>>)
       \o <<hdr>>
       \o (IF entry.type = FT_Regular /\ content_size > 0 THEN padded(entry.content)
           ELSE <<>>)

\* The order save_tar_recursive visits the paths in: the names of a
\* directory sorted, each directory followed by what is under it.
WalkOrder == <<"a", "b", "d", "d/a", "d/b">>

RECURSIVE save_tar_recursive(_, _)
save_tar_recursive(f, k) ==
  IF k > Len(WalkOrder) THEN <<>>
  ELSE (IF WalkOrder[k] \in DOMAIN f.children
        THEN emit_tar_header(WalkOrder[k], EntryOf(f, f.children[WalkOrder[k]]))
        ELSE <<>>)
         \o save_tar_recursive(f, k + 1)

\* VirtualFS::save_tar: the entries and two zero blocks.
save_tar(f) == save_tar_recursive(f, 1) \o <<ZeroBlock, ZeroBlock>>

\* A name as load_tar hands it to insert_entry: "./" and trailing slashes
\* taken off.
stripped(name) ==
  LET n == IF Len(name) >= 2 /\ name[1] = DOT /\ name[2] = SLASH
           THEN SubSeq(name, 3, Len(name)) ELSE name
  IN IF n # <<>> /\ n[Len(n)] = SLASH THEN SubSeq(n, 1, Len(n) - 1) ELSE n

\* The path with these characters ("?", under the root, for any other name).
path_of(chars) ==
  IF \E p \in DOMAIN PathChars : PathChars[p] = chars
  THEN CHOOSE p \in DOMAIN PathChars : PathChars[p] = chars
  ELSE "?"

\* The Entry load_tar makes of a header and the content that follows it.
tar_entry(hdr, content) ==
  [Entry(type_of_flag(hdr.type_flag)) EXCEPT
     !.mode = parse_octal(hdr.mode), !.uid = parse_octal(hdr.uid),
     !.gid = parse_octal(hdr.gid), !.size = parse_octal(hdr.size),
     !.mtime = parse_octal(hdr.mtime), !.link_target = c_str(hdr.linkname),
     !.content = content]

\* One round of load_tar's loop on the header at block at, whose name is
\* already known: [fs, next] with next = 0 when the loop ends.
load_entry(f, ar, at, name) ==
  LET hdr == ar[at]
      file_size == parse_octal(hdr.size)
      has_content == type_of_flag(hdr.type_flag) = FT_Regular /\ file_size > 0
      short == has_content /\ at * TarBlock + file_size > Len(ar) * TarBlock
      content == IF has_content /\ ~short THEN data_at(ar, at + 1, file_size) ELSE <<>>
  IN IF stripped(name) = <<>> THEN [fs |-> f, next |-> at + 1]
     ELSE IF short THEN [fs |-> f, next |-> 0]
     ELSE [fs |-> insert_entry(f, path_of(stripped(name)), tar_entry(hdr, content)),
           next |-> at + 1 + (IF has_content THEN blocks_for(file_size) ELSE 0)]

\* load_tar's loop from block at.
RECURSIVE load_from(_, _, _)
load_from(f, ar, at) ==
  IF at = 0 \/ at > Len(ar) \/ ar[at] = ZeroBlock THEN f
  ELSE IF c_str(ar[at].name) = LONGLINK
  THEN LET name_len == parse_octal(ar[at].size)
           real == at + 1 + blocks_for(name_len)
       IN IF real > Len(ar) THEN f
          ELSE LET r == load_entry(f, ar, real, c_str(data_at(ar, at + 1, name_len)))
               IN load_from(r.fs, ar, r.next)
  ELSE LET r == load_entry(f, ar, at, c_str(ar[at].name))
       IN load_from(r.fs, ar, r.next)

\* VirtualFS::load_tar
load_tar(f, ar) == load_from(f, ar, 1)

\* VirtualFS(): an empty root of mode 0755.
NewVfs ==
  [entries |-> <<[Entry(FT_Directory) EXCEPT !.mode = 493]>>,
   children |-> <<>>, open_files_ |-> <<>>, open_dirs_ |-> <<>>, next_fd_ |-> FIRST_FD]

\* -------------------------------------------------- specs: the saved tree
MaxTarEntries == 3

\* The symlink targets a guest passes: a short one and one longer than the
\* linkname field.
Targets == {<<1>>, <<3, SLASH, 1>>}

TarOpenCalls ==
  IF fs.next_fd_ = FIRST_FD /\ Len(fs.entries) <= MaxTarEntries
  THEN {Call(NR_openat, AT_FDCWD, 101, O_RDWR + O_CREAT, 0, 0)}
  ELSE {}

TarWriteCalls ==
  {Call(NR_write, fd, FdBuf, 1, 0, 0) :
     fd \in {w \in DOMAIN fs.open_files_ : fs.open_files_[w].offset < MaxFileLen}}

TarMenu == TarOpenCalls \cup TarWriteCalls \cup LinkCalls

GuestTar == GuestSetup(TarMenu, {8})

\* The calls the handlers make on the VFS.
VfsCall(r) ==
  /\ GuestRunning /\ pc \notin EcallSites
  /\ fs' = r.fs
  /\ UNCHANGED <<m_stopped, regs, pc, mem, mmap_frontier, page_attr, bridgeVars,
                 hostVars, ghostVars, procVars>>

mkdir ==
  /\ Len(fs.entries) <= MaxTarEntries
  /\ \E mode \in {1005} : VfsCall(vfs_mkdir(fs, "d", mode))

unlink ==
  \E path \in DOMAIN fs.children, flags \in {0, AT_REMOVEDIR} :
    /\ vfs_unlink(fs, path, flags).ret = 0
    /\ VfsCall(vfs_unlink(fs, path, flags))

symlink ==
  /\ Len(fs.entries) < MaxTarEntries
  /\ \E target \in Targets, linkpath \in {"b", "d/b"} :
       VfsCall(vfs_symlink(fs, target, linkpath))

rename ==
  \E oldpath \in DOMAIN fs.children, newpath \in {"a", "b", "d/a", "d/b"} :
    /\ ~has_children(fs, oldpath) /\ oldpath # newpath
    /\ vfs_rename(fs, oldpath, newpath).ret = 0
    /\ VfsCall(vfs_rename(fs, oldpath, newpath))

NextTar ==
  \/ GuestTar \/ GuestFill
  \/ sys_openat \/ sys_write \/ sys_linkat
  \/ mkdir \/ unlink \/ symlink \/ rename

SpecTar == InitGuest /\ [][NextTar]_vars

\* --------------------------------------------- properties: the saved tree
\* What the claim compares: for each path the kind, mode, uid, gid, mtime,
\* symlink target and content of its Entry.
TreeOf(f) ==
  [p \in DOMAIN f.children |->
     [type |-> EntryOf(f, f.children[p]).type,
      mode |-> EntryOf(f, f.children[p]).mode,
      uid |-> EntryOf(f, f.children[p]).uid,
      gid |-> EntryOf(f, f.children[p]).gid,
      mtime |-> EntryOf(f, f.children[p]).mtime,
      link_target |-> EntryOf(f, f.children[p]).link_target,
      content |-> EntryOf(f, f.children[p]).content]]

\* The tree a fresh VFS holds after loading what save_tar wrote.
Reloaded == TreeOf(load_tar(NewVfs, save_tar(fs)))

\* C21: loading the output of save_tar into a fresh VFS gives a tree equal
\* to the saved one: the same paths and for each the same kind, mode, uid,
\* gid, mtime, symlink target and content.
C21_TarRoundTrip == Reloaded = TreeOf(fs)

\* The same for trees whose symlink targets fit the linkname field.
RoundTripShortTargets ==
  (\A p \in DOMAIN fs.children :
     Len(EntryOf(fs, fs.children[p]).link_target) <= LinkField)
    => Reloaded = TreeOf(fs)

\* A tree with a directory, a file under it, a symlink and a hard link
\* comes back from the archive.
RoundTripNested ==
  /\ "d" \in DOMAIN fs.children /\ "d/a" \in DOMAIN fs.children
  /\ \E p \in DOMAIN fs.children : EntryOf(fs, fs.children[p]).type = FT_Symlink
  /\ Reloaded = TreeOf(fs)

\* ------------------------------------------- properties: a thread's exit
\* The slots other than e that the scheduler holds as active and not waiting.
RunnableBut(s, e) ==
  {i \in Slots \ {e} : s.threads[i].active /\ ~s.threads[i].waiting}

\* The slots that a step takes out of a futex wait.
WokenNow ==
  {i \in Slots : g_sched.threads[i].waiting /\ ~g_sched'.threads[i].waiting
                   /\ i # g_sched.current}

\* exit called by a thread other than the main one while several are live.
ThreadExits == sys_exit /\ g_sched.count > 1 /\ g_sched.current # 0

\* C31: a non-main thread's exit writes 0 to its clear_child_tid word (when
\* set) and wakes at most one slot waiting on it, makes its slot inactive and
\* the live count one less, and loads the registers and PC of another active
\* non-waiting slot, which becomes current; only when there is none does it
\* go on to the fork-child or main-thread exit.
C31_ThreadExit ==
  [][ThreadExits =>
       LET e == g_sched.current
           ctid == g_sched.threads[e].clear_child_tid
       IN /\ IF ctid # 0
             THEN /\ mem'[ctid] = 0
                  /\ Cardinality(WokenNow) <= 1
                  /\ \A i \in WokenNow : g_sched.threads[i].futex_addr = ctid
             ELSE mem' = mem /\ WokenNow = {}
          /\ ~g_sched'.threads[e].active
          /\ g_sched'.count = g_sched.count - 1
          /\ IF RunnableBut(g_sched', e) # {}
             THEN /\ g_sched'.current \in RunnableBut(g_sched', e)
                  /\ regs' = g_sched'.threads[g_sched'.current].regs
                  /\ pc' = g_sched'.threads[g_sched'.current].pc
                  /\ m_stopped' = m_stopped
                  /\ g_fork' = g_fork
             ELSE \/ g_fork.in_child /\ ~g_fork'.in_child
                  \/ ~g_fork.in_child /\ m_stopped']_vars

\* A worker with a clear_child_tid word has exited: the word holds 0, its
\* slot is inactive and a thread that was parked on the word runs again.
C31_Witness ==
  /\ ~m_stopped
  /\ \E e \in Slots \ {0} :
       /\ ~g_sched.threads[e].active
       /\ g_sched.threads[e].tid # 0
       /\ g_sched.threads[e].clear_child_tid \in FutexAddrs
       /\ mem[g_sched.threads[e].clear_child_tid] = 0
       /\ g_sched.current # e
       /\ g_sched.threads[g_sched.current].futex_addr
            = g_sched.threads[e].clear_child_tid
       /\ g_sched.threads[g_sched.current].active
       /\ ~g_sched.threads[g_sched.current].waiting
       /\ regs = g_sched.threads[g_sched.current].regs
       /\ pc = g_sched.threads[g_sched.current].pc

\* ------------------------------------------------ specs: page-fault retries
\* A guest store to a page that is not writable: simulate throws a
\* MachineException whose data is the faulting address, and the execution
\* loop's catch decides.  The store has not happened.
GuestFaultingStore ==
  /\ GuestRunning
  /\ pc \notin EcallSites
  /\ \E a \in Addr :
       /\ (page_attr[a] \div 2) % 2 = 0
       /\ retry_page_fault(page_attr, a)
  /\ UNCHANGED <<m_stopped, regs, pc, mem, mmap_frontier, bridgeVars, uiPc, uiData,
                 session, snap, ghostVars, fs, procVars>>

RetryCalls ==
  {Call(NR_mprotect, a, l, p, 0, 0) :
     a \in {mmap_start, INTERP_RW_START}, l \in {1, 2}, p \in {1, 3}}

GuestRetry == GuestSetup(RetryCalls, {8})

\* ExecSimFail is the exception that carries no faulting address.
NextRetry ==
  \/ GuestRetry \/ sys_mprotect \/ GuestFaultingStore
  \/ ExecSimFail \/ ExecFinish

SpecRetry == InitGuest /\ [][NextRetry]_vars

\* ------------------------------------------- properties: page-fault retries
\* The fault is repaired: the page is RWX and simulate is entered again.
Repaired ==
  /\ retries' = retries + 1
  /\ execPc' = execPc
  /\ \E a \in Addr :
       /\ (page_attr[a] \div 2) % 2 = 0
       /\ page_attr' = [page_attr EXCEPT ![a] = PageAttributes(TRUE, TRUE, TRUE)]

\* C32: within one simulate episode a fault with a non-zero address is
\* repaired (page RWX, simulate retried) for up to 8 faults; only a 9th
\* fault, or a fault address of 0, ends the loop with running false.
C32_EightRepairs ==
  /\ [][(GuestFaultingStore /\ retries < MAX_RETRIES) => Repaired]_vars
  /\ [][ExecSimFail => execPc' = "exit_loop"]_vars
  /\ [](execPc = "finished" => ~running)

\* What the loop does: the first MAX_RETRIES - 1 faults of an episode are
\* repaired and the next one ends the loop.
SevenRepairs ==
  /\ [][(GuestFaultingStore /\ retries < MAX_RETRIES - 1) => Repaired]_vars
  /\ [][(GuestFaultingStore /\ retries >= MAX_RETRIES - 1)
          => (execPc' = "exit_loop" /\ page_attr' = page_attr)]_vars
  /\ [](retries <= MAX_RETRIES - 1)
  /\ [](execPc = "finished" => ~running)

\* ---------------------------------------------- properties: brk after execve
\* brk with the override set: the break stays inside its window.
BrkInWindow ==
  g_exec_ctx.brk_overridden
    => /\ g_exec_ctx.brk_base <= g_exec_ctx.brk_current
       /\ g_exec_ctx.brk_current <= g_exec_ctx.brk_base + BRK_MAX

\* C33: once a different-binary execve has set brk_overridden, whatever the
\* arguments of the brk calls, brk_base <= brk_current <= brk_base + BRK_MAX
\* holds in every state, brk does not change brk_base, and each call returns
\* the resulting brk_current.
C33_BrkClamped ==
  /\ []BrkInWindow
  /\ [][(sys_brk /\ g_exec_ctx.brk_overridden)
          => /\ g_exec_ctx'.brk_base = g_exec_ctx.brk_base
             /\ g_exec_ctx'.brk_overridden
             /\ regs'[REG_A0] = g_exec_ctx'.brk_current]_vars

\* After an execve of another binary the guest has asked for a break above
\* the window and got its upper end.
C33_Witness ==
  /\ g_exec_ctx.brk_overridden
  /\ regs[REG_A7] = NR_brk
  /\ pc \notin EcallSites
  /\ g_exec_ctx.brk_current = g_exec_ctx.brk_base + BRK_MAX
  /\ regs[REG_A0] = g_exec_ctx.brk_current
  /\ BRK_MAX > 0

\* --------------------------------------------- properties: nanosleep result
\* The slot that makes the nanosleep call.
Sleeper == g_sched.current

\* C34: nanosleep returns 0 in every case: after a host sleep a0 is 0, and
\* after a yield the registers saved for the caller, which are the ones it is
\* resumed with, hold 0 in a0, and the caller is not waiting.
C34_NanosleepReturnsZero ==
  [][sys_nanosleep
       => /\ ~g_sched'.threads[Sleeper].waiting
          /\ IF g_sched'.current = Sleeper
             THEN regs'[REG_A0] = 0
             ELSE g_sched'.threads[Sleeper].regs[REG_A0] = 0]_vars

\* What the code does: the host-sleep path returns 0, the yield path saves
\* the caller with a0 still holding the timespec pointer.
NanosleepYieldKeepsA0 ==
  [][sys_nanosleep
       => /\ ~g_sched'.threads[Sleeper].waiting
          /\ IF g_sched'.current = Sleeper
             THEN regs'[REG_A0] = 0
             ELSE g_sched'.threads[Sleeper].regs[REG_A0] = regs[REG_A0]]_vars

\* ------------------------------------------------ properties: ppoll timeout
\* The execution thread and the guest take their steps; the host side is
\* free to stay silent.
FairSpecPoll ==
  SpecPoll /\ WF_vars(ExecStep \/ GuestPoll \/ GuestPollArgs \/ sys_ppoll \/ sys_read)

\* No bytes pushed, no EOF, no stop, and no push on its way.
HostSilent ==
  /\ stdin_buffer = <<>>
  /\ ~stdin_eof
  /\ running
  /\ uiPc = "idle"

\* A ppoll with a non-zero timeout has found nothing ready and was rewound.
PpollPending ==
  /\ regs[REG_A7] = NR_ppoll
  /\ pc \in EcallSites
  /\ m_stopped
  /\ regs[REG_A2] # 0
  /\ ~zero_timeout(mem, regs[REG_A2])

\* C35: a ppoll with a finite positive timeout on which no fd is ready
\* eventually returns to the guest although the host stays silent.
C35_PpollTimesOut ==
  (PpollPending /\ HostSilent) ~> (pc \notin EcallSites \/ ~HostSilent)

\* ------------------------------------------------ fd numbers: dup and open
MaxDupFd == 5

\* open, opendir, dup, dup3 from any fd number (open or not) to any fd number
\* of the window, pipe2 and close.
DupMenu ==
  (IF fs.next_fd_ <= MaxDupFd
   THEN {Call(NR_openat, AT_FDCWD, 100, O_RDONLY, 0, 0),
         Call(NR_openat, AT_FDCWD, 102, O_DIRECTORY, 0, 0)}
          \cup {Call(NR_dup, fd, 0, 0, 0, 0) : fd \in get_open_fds(fs)}
   ELSE {})
    \cup (IF fs.next_fd_ + 1 <= MaxDupFd /\ Len(fs.entries) < MaxEntries
          THEN {Call(NR_pipe2, FdBuf, 0, 0, 0, 0)} ELSE {})
    \cup {Call(NR_dup3, old, new, 0, 0, 0) :
            old \in FIRST_FD..MaxDupFd, new \in FIRST_FD..MaxDupFd}
    \cup CloseCalls

GuestDup == GuestSetup(DupMenu, {8})

NextDup ==
  \/ GuestDup
  \/ sys_openat \/ sys_close \/ sys_dup \/ sys_dup3 \/ sys_pipe2

SpecDup == InitGuest /\ [][NextDup]_vars

\* ------------------------------------------------ properties: failing dup3
\* The fd table: which numbers are open and what each refers to.
FdTable(f) == [files |-> f.open_files_, dirs |-> f.open_dirs_]

\* C36: a dup3 that fails with EBADF (oldfd not open) or with EINVAL
\* (oldfd = newfd) leaves the fd table unchanged; a newfd that was open
\* before the call is still open and refers to the same entry.
C36_FailedDupKeepsTable ==
  [][(sys_dup3 /\ regs'[REG_A0] \in {-EBADF, -EINVAL})
       => FdTable(fs') = FdTable(fs)]_vars

\* What the code guarantees: the EINVAL failure leaves the table alone, and
\* the EBADF failure leaves every fd but newfd alone, newfd being closed.
FailedDupClosesNewfd ==
  [][(sys_dup3 /\ regs'[REG_A0] \in {-EBADF, -EINVAL})
       => IF regs'[REG_A0] = -EINVAL
          THEN FdTable(fs') = FdTable(fs)
          ELSE FdTable(fs') = FdTable(vfs_close(fs, regs[REG_A1]))]_vars

\* A dup3 from a closed oldfd onto an open newfd has failed with EBADF.
FailedDupOntoOpenFd ==
  /\ regs[REG_A7] = NR_dup3
  /\ pc \notin EcallSites
  /\ regs[REG_A0] = -EBADF
  /\ regs[REG_A1] \notin get_open_fds(fs)
  /\ fs.next_fd_ > regs[REG_A1]

\* ------------------------------------------------ properties: fresh fd numbers
\* The fds a call has handed out: the result of open, opendir and dup, the
\* two numbers pipe2 stores at pipefd.
Allocates == sys_openat \/ sys_dup \/ sys_pipe2

NewFds ==
  IF regs[REG_A7] = NR_pipe2
  THEN {mem'[regs[REG_A0]], mem'[regs[REG_A0] + 1]}
  ELSE {regs'[REG_A0]} \ {r \in {regs'[REG_A0]} : r < 0}

\* C37: an fd newly returned by open, opendir, dup or pipe2 was not open
\* immediately before the call.
C37_NewFdWasClosed ==
  [][Allocates => NewFds \cap get_open_fds(fs) = {}]_vars

\* What the code guarantees: the number handed out is next_fd_, above every
\* number handed out before; numbers installed by dup3 are not looked at.
NewFdIsNextFd ==
  [][Allocates
       => /\ \A fd \in NewFds : fd >= fs.next_fd_ /\ fd < fs'.next_fd_
          /\ fs'.next_fd_ = fs.next_fd_ + Cardinality(NewFds)]_vars

\* ------------------------------------------------- execve that fails
\* execve and brk as before, and the guest may unlink files, among them the
\* interpreter its images name.
NextExecFail == GuestExec \/ GuestArgv \/ sys_execve \/ sys_brk \/ unlink

SpecExecFail == InitExec /\ [][NextExecFail]_vars

\* The fields of the exec context a fork or an execve relies on.
CtxFields(ctx) ==
  [exec_binary |-> ctx.exec_binary,
   exec_rw |-> <<ctx.exec_rw_start, ctx.exec_rw_end>>,
   interp_rw |-> <<ctx.interp_rw_start, ctx.interp_rw_end>>,
   interp_entry |-> ctx.interp_entry,
   brk |-> <<ctx.brk_base, ctx.brk_current, ctx.brk_overridden>>,
   original_stack_top |-> ctx.original_stack_top]

ExecveFails == sys_execve /\ ~ExecveOutcome.ok

ExecveLeavesState ==
  /\ CtxFields(g_exec_ctx') = CtxFields(g_exec_ctx)
  /\ \A r \in Regs \ {REG_A0} : regs'[r] = regs[r]
  /\ mem' = mem

\* C38: an execve that returns a negative errno leaves the exec context,
\* the registers other than a0 and the loaded image unchanged.
C38_FailedExecveKeepsState ==
  [][ExecveFails => (regs'[REG_A0] < 0 /\ ExecveLeavesState)]_vars

\* What the code guarantees: the failures found before anything is loaded
\* (no exec context, bad path or argv pointer, image too large) leave the
\* state alone.
EarlyFailureKeepsState ==
  [][(ExecveFails /\ ExecveOutcome.ret \in {-ENOSYS, -EFAULT, -ENOMEM})
       => ExecveLeavesState]_vars

\* ------------------------------------------------ fork cycle with execve
\* A fork child may execve another image before it exits. A clone is made
\* while the mmap region it saves lies inside the modelled memory.
ForkExecMenu ==
  (IF mmap_frontier <= STACK_TOP THEN ForkCalls ELSE {}) \cup ExitCalls({0})
    \cup {Call(NR_execve, p, ArgvAddr, 0, 0, 0) : p \in
            IF fs.next_fd_ <= MaxExecFds THEN ExecPaths ELSE {}}

GuestForkExec == GuestSetup(ForkExecMenu, {8})

NextForkExec ==
  \/ GuestForkExec
  \/ sys_clone \/ sys_execve \/ sys_exit \/ sys_exit_group

SpecForkExec == InitExec /\ [][NextForkExec]_vars

\* C39: for every fork cycle, also one in which the child calls execve of
\* another image, the exec context after the parent is restored equals its
\* value immediately before the clone.
C39_ExecContextRestored ==
  [][ParentRestored => CtxFields(g_exec_ctx') = CtxFields(hist.clone_ctx)]_vars

\* What the code does: the restore leaves the exec context as the child
\* left it.
RestoreKeepsChildContext ==
  [][ParentRestored => g_exec_ctx' = g_exec_ctx]_vars

\* ------------------------------------------------ vfs.hpp: lseek
NR_lseek == 62

\* VirtualFS::lseek: whence 0, 1, 2 are SEEK_SET, SEEK_CUR, SEEK_END; the
\* new offset is not compared with the length of the content.
vfs_lseek(f, fd, offset, whence) ==
  IF fd \notin DOMAIN f.open_files_ THEN [fs |-> f, ret |-> -EBADF]
  ELSE LET fh == f.open_files_[fd]
           new_offset == IF whence = 0 THEN offset
                         ELSE IF whence = 1 THEN fh.offset + offset
                         ELSE EntryOf(f, fh.entry).size + offset
       IN IF whence \notin {0, 1, 2} THEN [fs |-> f, ret |-> -EINVAL]
          ELSE IF new_offset < 0 THEN [fs |-> f, ret |-> -EINVAL]
          ELSE [fs |-> [f EXCEPT !.open_files_[fd].offset = new_offset],
                ret |-> new_offset]

sys_lseek ==
  /\ Dispatch(NR_lseek)
  /\ LET r == vfs_lseek(fs, regs[REG_A0], regs[REG_A1], regs[REG_A2])
     IN fs' = r.fs /\ Return(r.ret)
  /\ UNCHANGED <<m_stopped, mem, mmap_frontier, page_attr, bridgeVars, hostVars,
                 ghostVars, procVars>>

\* ------------------------------------------------ reads at the end of a file
MaxSeek == 3

\* Two handles on the file "a", seeks to and past its end, truncations
\* through either handle, and reads while the offset is inside the window.
EofMenu ==
  (IF fs.next_fd_ <= MaxFd
   THEN {Call(NR_openat, AT_FDCWD, 100, O_RDWR, 0, 0)} ELSE {})
    \cup {Call(NR_lseek, fd, off, whence, 0, 0) :
            fd \in get_open_fds(fs), off \in (-1)..MaxSeek, whence \in {0, 2, 3}}
    \cup {Call(NR_lseek, fd, 1, 1, 0, 0) :
            fd \in {w \in DOMAIN fs.open_files_ : fs.open_files_[w].offset < MaxSeek}}
    \cup {Call(NR_read, fd, FdBuf, n, 0, 0) :
            fd \in {w \in DOMAIN fs.open_files_ : fs.open_files_[w].offset <= MaxSeek},
            n \in 1..MaxCount}
    \cup TruncateCalls \cup CloseCalls

GuestEof == GuestSetup(EofMenu, {8})

NextEof ==
  \/ GuestEof
  \/ sys_openat \/ sys_close \/ sys_lseek \/ sys_read \/ sys_ftruncate

SpecEof == InitGuest /\ [][NextEof]_vars

\* The read is from a regular-file fd; its offset and the content's length.
ReadsFile ==
  /\ sys_read
  /\ regs[REG_A0] \in DOMAIN fs.open_files_
  /\ is_file(fs, fs.open_files_[regs[REG_A0]].entry)

ReadOffset == fs.open_files_[regs[REG_A0]].offset

ReadLen == Len(EntryOf(fs, fs.open_files_[regs[REG_A0]].entry).content)

\* C40: a read from a regular file whose offset is at or beyond the end of
\* the content returns 0 and copies nothing, whatever the count; no read
\* copies more than len(content) - offset bytes.
C40_ReadPastEndIsEmpty ==
  [][ReadsFile
       => /\ regs'[REG_A0] <= Max(ReadLen - ReadOffset, 0)
          /\ ReadOffset >= ReadLen => (regs'[REG_A0] = 0 /\ mem' = mem)]_vars

\* What the code guarantees: the same for offsets up to the end.
ReadUpToEnd ==
  [][(ReadsFile /\ ReadOffset <= ReadLen)
       => /\ regs'[REG_A0] = Min(regs[REG_A2], ReadLen - ReadOffset)
          /\ ReadOffset = ReadLen => (regs'[REG_A0] = 0 /\ mem' = mem)]_vars

====
